---- MODULE Spec2Model ----
(***************************************************************************)
(* A model of the delivery engine of cloudlog:                             *)
(*   - delivery.AsyncDeliverer  (variables ad*, specification SpecAD)      *)
(*   - delivery.BatchDeliverer  (variables bd*, SpecBDF, SpecBDC and, with *)
(*     fair scheduling, SpecBDLive)                                        *)
(*   - delivery.SyncDeliverer   (variable sd, SpecSD)                      *)
(*   - logger.AsyncLogger       (variables al*, SpecALF, SpecALC, both in  *)
(*     SpecALFC; with blockOnFull and fair scheduling, SpecALB; with two   *)
(*     workers and a fair ticker, SpecALT; with a derived logger           *)
(*     (variable dl), SpecALD)                                             *)
(*   - one of the deliverers with a client that delivers (SpecDeliver)     *)
(*   - one call of AsyncLogger.processBatch (variable pb, SpecPB)          *)
(* Each goroutine is a process with a program counter; every step is one   *)
(* channel operation, one atomic counter operation or one critical section *)
(* of the Go code.  Timers (time.After, context.WithTimeout, the tickers)  *)
(* fire nondeterministically; a time.Sleep is a point where other          *)
(* goroutines may run.  Sender.Send succeeds or fails nondeterministically.*)
(***************************************************************************)
EXTENDS Integers, Sequences, FiniteSets, TLC

(* ------------------------------ bounds -------------------------------- *)
\* number of Deliver / log calls made in one behaviour
MaxEntries == 3
\* Config.QueueSize / the capacity of the buffer channel
QueueSize == 2
\* Config.Workers of the AsyncDeliverer
Workers == 1
\* Config.MaxRetries
MaxRetries == 1
\* Config.BatchSize of the BatchDeliverer and batchSize of the AsyncLogger
BatchSize == 2
\* number of Close calls made in one behaviour (AsyncDeliverer, AsyncLogger),
\* and of Flush and of Close calls made on the SyncDeliverer
MaxCloseCalls == 2
\* number of Close calls made on the BatchDeliverer in one behaviour
BDMaxCloseCalls == 1
\* number of Flush calls made in one behaviour
MaxFlushCalls == 1
\* number of worker goroutines of the AsyncLogger
LoggerWorkers == 1
\* number of worker goroutines of the AsyncLogger built with WithWorkers
TickWorkers == 2
\* number of jobs in a batch given to processBatch
MaxJobs == 2
\* number of entries of one job in a batch given to processBatch
MaxRecords == 2

EntryIds == 1..MaxEntries

SeqToSet(s) == {s[i] : i \in 1..Len(s)}

VARIABLES
  \* ---- delivery.AsyncDeliverer
  adQueue,      \* d.queue: the entries in the channel, oldest first
  adDone,       \* d.done is closed
  adStats,      \* the counters buffered, delivered, failed, dropped, retried
  adWorker,     \* per worker goroutine: pc, the entry in hand, the attempt
  adDeliver,    \* the Deliver caller: pc, entry, last result, call began after Close returned
  adNextId,     \* number of Deliver calls begun so far
  adAccepted,   \* entries whose Deliver returned nil
  adCounted,    \* per entry: how often it was counted in delivered and in failed,
                \* the Send attempts made for it, the retries counted for it
  adFlush,      \* the Flush caller and its polling goroutine
  adClose,      \* the Close caller
  \* ---- delivery.BatchDeliverer
  bdQueue,      \* d.queue
  bdDone,       \* d.done is closed
  bdStats,      \* buffered, delivered, failed, dropped, retried, batches
  bdCurrentBatch, \* d.currentBatch
  bdProc,       \* the batchProcessor goroutine: pc, entry in hand
  bdSenders,    \* the running sendBatch goroutines
  bdDeliver,    \* the Deliver caller
  bdNextId,
  bdAccepted,
  bdHandled,    \* entries a sendBatch has finished with (sent or retried to exhaustion)
  bdFlush,      \* a Flush call (the user's or the one made by Close) and its goroutine
  bdClose,      \* the Close caller
  \* ---- logger.AsyncLogger
  alBuffer,     \* l.buffer: the entries in the channel, oldest first
  alBufClosed,  \* l.buffer is closed
  alDone,       \* l.done is closed
  alClosed,     \* l.closed
  alBlockOnFull,\* l.blockOnFull
  alWorker,     \* per processLogs goroutine: pc, batch
  alHandler,    \* the handleFlushMarkers goroutine: pc, entry in hand
  alTickerG,    \* the flushRoutine goroutine: pc
  alLog,        \* the log caller: pc, entry, last result, call began after Close returned
  alNextId,
  alAccepted,   \* entries whose log call returned nil
  alSent,       \* entries (and markers) passed to Sender.Send
  alLost,       \* entries dequeued and discarded without a Send
  alFlush,      \* the Flush caller
  alSignalled,  \* flush markers whose completion channel has been closed
  alClose,      \* the Close caller
  alReports,    \* what the workers' Sends reported: the failed Sends, whether one
                \* carried an entry whose log call had not returned nil, the
                \* calls of the error handler and their errors
  \* ---- one call of AsyncLogger.processBatch
  pb,           \* the job batches still to visit, estimatedSize, the combined
                \* entry (its estimated size and streams, the jobs it holds),
                \* the combined entries passed to Sender.Send (their sizes,
                \* their jobs), the formatter's behaviour, the Format and Send
                \* calls of processSingleEntries, the error handler's calls
  \* ---- delivery.SyncDeliverer
  sd,           \* the counters delivered and failed, the Deliver, Flush and
                \* Close calls made, the Sender.Send calls made, the payload
                \* and the error of the last Send, the last results
  \* ---- a logger derived from the AsyncLogger by WithContext or WithJob
  dl,           \* whether it exists, its own closed flag, its Close caller
                \* and its log caller
  \* ---- the options of the AsyncLogger that no operation changes
  alFormatter   \* l.formatter: the default LokiFormatter or a StringFormatter

adVars == <<adQueue, adDone, adStats, adWorker, adDeliver, adNextId, adAccepted,
            adCounted, adFlush, adClose>>
bdVars == <<bdQueue, bdDone, bdStats, bdCurrentBatch, bdProc, bdSenders, bdDeliver,
            bdNextId, bdAccepted, bdHandled, bdFlush, bdClose>>
alVars == <<alBuffer, alBufClosed, alDone, alClosed, alBlockOnFull, alWorker,
            alHandler, alTickerG, alLog, alNextId, alAccepted, alSent, alLost,
            alFlush, alSignalled, alClose, alReports>>
pbVars == <<pb>>
sdVars == <<sd>>
dlVars == <<dl>>
alOptions == <<alFormatter>>
vars == <<adVars, bdVars, alVars, pbVars, sdVars, dlVars, alOptions>>

(* ====================================================================== *)
(*                        delivery.AsyncDeliverer                          *)
(* ====================================================================== *)
ADWorkerIds == 1..Workers

\* NewAsyncDeliverer: an empty queue, an open done channel, zero counters,
\* Config.Workers goroutines waiting in their select.
NewAsyncDeliverer ==
  /\ adQueue = <<>>
  /\ adDone = FALSE
  /\ adStats = [buffered |-> 0, delivered |-> 0, failed |-> 0, dropped |-> 0, retried |-> 0]
  /\ adWorker = [w \in ADWorkerIds |-> [pc |-> "select", entry |-> 0, attempt |-> 0]]
  /\ adDeliver = [pc |-> "idle", res |-> "none", afterClose |-> FALSE]
  /\ adNextId = 0
  /\ adAccepted = {}
  /\ adCounted = [e \in EntryIds |-> [delivered |-> 0, failed |-> 0, sends |-> 0, retries |-> 0]]
  /\ adFlush = [pc |-> "idle", calls |-> 0, snap |-> {}, res |-> "none",
                buffered |-> 0, uncounted |-> FALSE]
  /\ adClose = [pc |-> "idle", calls |-> 0, res |-> "none", returned |-> FALSE,
                sending |-> FALSE]

\* Status(): the snapshot of the five counters
ADStatus == adStats

\* entries that have reached a terminal state (counted in delivered or failed)
ADTerminal == {e \in EntryIds : adCounted[e].delivered + adCounted[e].failed > 0}

\* a worker is inside processEntry: in Sender.Send or about to call it
ADSending == \E w \in ADWorkerIds : adWorker[w].pc \in {"dec", "send"}

\* Deliver's default branch without its count
AD_countDropped_NotCounted(stats) == stats

\* Deliver, the default branch: atomic.AddUint64(&d.dropped, 1)
AD_countDropped(stats) == [stats EXCEPT !.dropped = @ + 1]

\* Deliver, the select: the channel send succeeds when the queue has room,
\* otherwise the default branch counts a drop and returns BufferFull.
AD_DeliverEnqueue ==
  /\ adDeliver.pc = "idle"
  /\ adNextId < MaxEntries
  /\ adNextId' = adNextId + 1
  /\ IF Len(adQueue) < QueueSize
       THEN /\ adQueue' = Append(adQueue, adNextId + 1)
            /\ adDeliver' = [pc |-> "inc", res |-> "none", afterClose |-> adClose.returned]
            /\ adStats' = adStats
       ELSE /\ adQueue' = adQueue
            /\ adStats' = AD_countDropped(adStats)
            /\ adDeliver' = [pc |-> "idle", res |-> "BufferFull", afterClose |-> adClose.returned]
  /\ UNCHANGED <<adDone, adWorker, adAccepted, adCounted, adFlush, adClose>>
  /\ UNCHANGED <<bdVars, alVars, pbVars, sdVars, dlVars, alOptions>>

\* Deliver after the send: atomic.AddInt64(&d.buffered, 1); return nil
AD_DeliverCount ==
  /\ adDeliver.pc = "inc"
  /\ adStats' = [adStats EXCEPT !.buffered = @ + 1]
  /\ adDeliver' = [adDeliver EXCEPT !.pc = "idle", !.res = "nil"]
  /\ adAccepted' = adAccepted \cup {adNextId}
  /\ UNCHANGED <<adQueue, adDone, adWorker, adNextId, adCounted, adFlush, adClose>>
  /\ UNCHANGED <<bdVars, alVars, pbVars, sdVars, dlVars, alOptions>>

\* worker, case entry := <-d.queue
AD_WorkerReceive(w) ==
  /\ adWorker[w].pc = "select"
  /\ adQueue /= <<>>
  /\ adWorker' = [adWorker EXCEPT ![w] = [pc |-> "dec", entry |-> Head(adQueue), attempt |-> 0]]
  /\ adQueue' = Tail(adQueue)
  /\ UNCHANGED <<adDone, adStats, adDeliver, adNextId, adAccepted, adCounted, adFlush, adClose>>
  /\ UNCHANGED <<bdVars, alVars, pbVars, sdVars, dlVars, alOptions>>

\* worker, atomic.AddInt64(&d.buffered, -1), then processEntry is entered
AD_WorkerCount(w) ==
  /\ adWorker[w].pc = "dec"
  /\ adStats' = [adStats EXCEPT !.buffered = @ - 1]
  /\ adWorker' = [adWorker EXCEPT ![w].pc = "send"]
  /\ UNCHANGED <<adQueue, adDone, adDeliver, adNextId, adAccepted, adCounted, adFlush, adClose>>
  /\ UNCHANGED <<bdVars, alVars, pbVars, sdVars, dlVars, alOptions>>

\* processEntry's loop running one attempt too many
AD_retryAllowed_OneMore(attempt) == attempt <= MaxRetries

\* processEntry, the loop condition for the attempt after a failed one:
\* attempt + 1 <= MaxRetries
AD_retryAllowed(attempt) == attempt < MaxRetries

\* processEntry without its count of retries
AD_countRetried_NotCounted(stats) == stats

\* processEntry, attempt > 0: atomic.AddUint64(&d.retried, 1)
AD_countRetried(stats) == [stats EXCEPT !.retried = @ + 1]

\* processEntry: one Sender.Send attempt and what follows it.  A success counts
\* the entry in delivered; a failure either starts the next attempt (retried is
\* counted, RetryInterval is slept) or, after MaxRetries retries, counts it in failed.
AD_processEntry(w, ok) ==
  /\ adWorker[w].pc = "send"
  /\ LET e == adWorker[w].entry
         a == adWorker[w].attempt
     IN IF ok
          THEN /\ adStats' = [adStats EXCEPT !.delivered = @ + 1]
               /\ adCounted' = [adCounted EXCEPT ![e].delivered = @ + 1, ![e].sends = @ + 1]
               /\ adWorker' = [adWorker EXCEPT ![w] = [pc |-> "select", entry |-> 0, attempt |-> 0]]
          ELSE IF AD_retryAllowed(a)
            THEN /\ adStats' = AD_countRetried(adStats)
                 /\ adCounted' = [adCounted EXCEPT ![e].sends = @ + 1, ![e].retries = @ + 1]
                 /\ adWorker' = [adWorker EXCEPT ![w].attempt = a + 1]
            ELSE /\ adStats' = [adStats EXCEPT !.failed = @ + 1]
                 /\ adCounted' = [adCounted EXCEPT ![e].failed = @ + 1, ![e].sends = @ + 1]
                 /\ adWorker' = [adWorker EXCEPT ![w] = [pc |-> "select", entry |-> 0, attempt |-> 0]]
  /\ UNCHANGED <<adQueue, adDone, adDeliver, adNextId, adAccepted, adFlush, adClose>>
  /\ UNCHANGED <<bdVars, alVars, pbVars, sdVars, dlVars, alOptions>>

\* worker, case <-d.done: return (wg.Done).  The select may take this case
\* whenever done is closed, whether or not the queue still holds entries.
AD_WorkerExit(w) ==
  /\ adWorker[w].pc = "select"
  /\ adDone
  /\ adWorker' = [adWorker EXCEPT ![w].pc = "exited"]
  /\ UNCHANGED <<adQueue, adDone, adStats, adDeliver, adNextId, adAccepted, adCounted, adFlush, adClose>>
  /\ UNCHANGED <<bdVars, alVars, pbVars, sdVars, dlVars, alOptions>>

\* Flush is called: the polling goroutine is started
AD_FlushBegin ==
  /\ adFlush.pc = "idle"
  /\ adFlush.calls < MaxFlushCalls
  /\ adFlush' = [pc |-> "load", calls |-> adFlush.calls + 1, snap |-> adAccepted,
                 res |-> "none", buffered |-> 0, uncounted |-> FALSE]
  /\ UNCHANGED <<adQueue, adDone, adStats, adWorker, adDeliver, adNextId, adAccepted, adCounted, adClose>>
  /\ UNCHANGED <<bdVars, alVars, pbVars, sdVars, dlVars, alOptions>>

\* Flush goroutine, first load of buffered: zero leads to the 20 ms sleep and
\* the second check, anything else to the 10 ms sleep and the next round.
AD_FlushLoad ==
  /\ adFlush.pc = "load"
  /\ adStats.buffered = 0
  /\ adFlush' = [adFlush EXCEPT !.pc = "recheck"]
  /\ UNCHANGED <<adQueue, adDone, adStats, adWorker, adDeliver, adNextId, adAccepted, adCounted, adClose>>
  /\ UNCHANGED <<bdVars, alVars, pbVars, sdVars, dlVars, alOptions>>

\* Flush goroutine, second load of buffered after the sleep: zero closes
\* flushDone and Flush returns nil; anything else starts the next round.
AD_FlushRecheck ==
  /\ adFlush.pc = "recheck"
  /\ IF adStats.buffered = 0
       THEN adFlush' = [adFlush EXCEPT !.pc = "idle", !.res = "nil", !.snap = {},
                          !.buffered = adStats.buffered,
                          !.uncounted = adFlush.snap \ ADTerminal /= {}]
       ELSE adFlush' = [adFlush EXCEPT !.pc = "load"]
  /\ UNCHANGED <<adQueue, adDone, adStats, adWorker, adDeliver, adNextId, adAccepted, adCounted, adClose>>
  /\ UNCHANGED <<bdVars, alVars, pbVars, sdVars, dlVars, alOptions>>

\* Flush, case <-time.After(ShutdownTimeout): return TimeoutError
AD_FlushTimeout ==
  /\ adFlush.pc \in {"load", "recheck"}
  /\ adFlush' = [adFlush EXCEPT !.pc = "idle", !.res = "Timeout", !.snap = {}]
  /\ UNCHANGED <<adQueue, adDone, adStats, adWorker, adDeliver, adNextId, adAccepted, adCounted, adClose>>
  /\ UNCHANGED <<bdVars, alVars, pbVars, sdVars, dlVars, alOptions>>

\* Close: close(d.done), which panics when done is already closed
AD_CloseBegin ==
  /\ adClose.pc = "idle"
  /\ adClose.calls < MaxCloseCalls
  /\ IF adDone
       THEN /\ adClose' = [adClose EXCEPT !.calls = @ + 1, !.res = "panic"]
            /\ adDone' = adDone
       ELSE /\ adClose' = [adClose EXCEPT !.pc = "wait", !.calls = @ + 1, !.res = "none"]
            /\ adDone' = TRUE
  /\ UNCHANGED <<adQueue, adStats, adWorker, adDeliver, adNextId, adAccepted, adCounted, adFlush>>
  /\ UNCHANGED <<bdVars, alVars, pbVars, sdVars, dlVars, alOptions>>

\* Close, case <-c: every worker has called wg.Done; return nil
AD_CloseReturn ==
  /\ adClose.pc = "wait"
  /\ \A w \in ADWorkerIds : adWorker[w].pc = "exited"
  /\ adClose' = [adClose EXCEPT !.pc = "idle", !.res = "nil", !.returned = TRUE,
                                !.sending = ADSending]
  /\ UNCHANGED <<adQueue, adDone, adStats, adWorker, adDeliver, adNextId, adAccepted, adCounted, adFlush>>
  /\ UNCHANGED <<bdVars, alVars, pbVars, sdVars, dlVars, alOptions>>

\* Close, case <-time.After(ShutdownTimeout): return ShutdownError
AD_CloseTimeout ==
  /\ adClose.pc = "wait"
  /\ adClose' = [adClose EXCEPT !.pc = "idle", !.res = "Shutdown", !.returned = TRUE,
                                !.sending = ADSending]
  /\ UNCHANGED <<adQueue, adDone, adStats, adWorker, adDeliver, adNextId, adAccepted, adCounted, adFlush>>
  /\ UNCHANGED <<bdVars, alVars, pbVars, sdVars, dlVars, alOptions>>

(* ====================================================================== *)
(*                        delivery.BatchDeliverer                          *)
(* ====================================================================== *)
\* The Flush goroutines: "cur" polls for the Flush call in progress, "leak" is
\* one whose Flush has timed out and which keeps polling.
FlushGoroutines == {"cur", "leak"}

\* NewBatchDeliverer and startProcessing: an empty queue and batch, an open
\* done channel, zero counters, the batchProcessor waiting in its select.
NewBatchDeliverer ==
  /\ bdQueue = <<>>
  /\ bdDone = FALSE
  /\ bdStats = [buffered |-> 0, delivered |-> 0, failed |-> 0, dropped |-> 0,
                retried |-> 0, batches |-> 0]
  /\ bdCurrentBatch = <<>>
  /\ bdProc = [pc |-> "select", entry |-> 0]
  /\ bdSenders = {}
  /\ bdDeliver = [pc |-> "idle", res |-> "none", afterClose |-> FALSE]
  /\ bdNextId = 0
  /\ bdAccepted = {}
  /\ bdHandled = [e \in EntryIds |-> "no"]
  /\ bdFlush = [cur |-> "off", leak |-> "off", owner |-> "user", calls |-> 0, snap |-> {},
                res |-> "none", pending |-> FALSE, unhandled |-> FALSE]
  /\ bdClose = [pc |-> "idle", calls |-> 0, snap |-> {}, res |-> "none",
                returned |-> FALSE, unfinished |-> FALSE, sending |-> FALSE]

\* Status(): the snapshot of the counters
BDStatus == [buffered |-> bdStats.buffered, delivered |-> bdStats.delivered,
             failed |-> bdStats.failed, dropped |-> bdStats.dropped,
             retried |-> bdStats.retried]

\* entries a sendBatch goroutine has finished with: sent successfully, or
\* retried to exhaustion and counted in failed
BDFinished == {e \in EntryIds : bdHandled[e] \in {"sent", "delivered", "failed"}}
\* entries counted in delivered or in failed
BDCountedIds == {e \in EntryIds : bdHandled[e] \in {"delivered", "failed"}}
\* entries still in the queue, in the processor's hand or in currentBatch
BDPending == SeqToSet(bdQueue) \cup SeqToSet(bdCurrentBatch)
               \cup (IF bdProc.pc \in {"dec", "append"} THEN {bdProc.entry} ELSE {})
\* a sendBatch goroutine is running: it is inside Sender.Send or about to call it
BDSending == \E s \in bdSenders : s.i <= Len(s.batch)

\* Deliver, the select: send on the queue, or default (drop, BufferFull)
BD_DeliverEnqueue ==
  /\ bdDeliver.pc = "idle"
  /\ bdNextId < MaxEntries
  /\ bdNextId' = bdNextId + 1
  /\ IF Len(bdQueue) < QueueSize
       THEN /\ bdQueue' = Append(bdQueue, bdNextId + 1)
            /\ bdDeliver' = [pc |-> "inc", res |-> "none", afterClose |-> bdClose.returned]
            /\ bdStats' = bdStats
       ELSE /\ bdQueue' = bdQueue
            /\ bdStats' = [bdStats EXCEPT !.dropped = @ + 1]
            /\ bdDeliver' = [pc |-> "idle", res |-> "BufferFull", afterClose |-> bdClose.returned]
  /\ UNCHANGED <<bdDone, bdCurrentBatch, bdProc, bdSenders, bdAccepted, bdHandled, bdFlush, bdClose>>
  /\ UNCHANGED <<adVars, alVars, pbVars, sdVars, dlVars, alOptions>>

\* Deliver after the send: atomic.AddInt64(&d.buffered, 1); return nil
BD_DeliverCount ==
  /\ bdDeliver.pc = "inc"
  /\ bdStats' = [bdStats EXCEPT !.buffered = @ + 1]
  /\ bdDeliver' = [bdDeliver EXCEPT !.pc = "idle", !.res = "nil"]
  /\ bdAccepted' = bdAccepted \cup {bdNextId}
  /\ UNCHANGED <<bdQueue, bdDone, bdCurrentBatch, bdProc, bdSenders, bdNextId, bdHandled, bdFlush, bdClose>>
  /\ UNCHANGED <<adVars, alVars, pbVars, sdVars, dlVars, alOptions>>

\* sendCurrentBatchLocked: the batch is handed to a new sendBatch goroutine
\* (the caller replaces currentBatch by an empty one)
sendCurrentBatchLocked(batch, senders) ==
  senders \cup {[batch |-> batch, i |-> 1, success |-> {}]}

\* batchProcessor, case entry := <-d.queue
BD_ProcReceive ==
  /\ bdProc.pc = "select"
  /\ bdQueue /= <<>>
  /\ bdProc' = [pc |-> "dec", entry |-> Head(bdQueue)]
  /\ bdQueue' = Tail(bdQueue)
  /\ UNCHANGED <<bdDone, bdStats, bdCurrentBatch, bdSenders, bdDeliver, bdNextId, bdAccepted, bdHandled, bdFlush, bdClose>>
  /\ UNCHANGED <<adVars, alVars, pbVars, sdVars, dlVars, alOptions>>

\* batchProcessor, atomic.AddInt64(&d.buffered, -1)
BD_ProcCount ==
  /\ bdProc.pc = "dec"
  /\ bdStats' = [bdStats EXCEPT !.buffered = @ - 1]
  /\ bdProc' = [bdProc EXCEPT !.pc = "append"]
  /\ UNCHANGED <<bdQueue, bdDone, bdCurrentBatch, bdSenders, bdDeliver, bdNextId, bdAccepted, bdHandled, bdFlush, bdClose>>
  /\ UNCHANGED <<adVars, alVars, pbVars, sdVars, dlVars, alOptions>>

\* a batchProcessor that cuts a batch at every entry
BD_batchFull_Always(batch) == TRUE
\* a batchProcessor that cuts a batch one entry late
BD_batchFull_OneLate(batch) == Len(batch) > BatchSize

\* batchProcessor: len(d.currentBatch) >= d.config.BatchSize
BD_batchFull(batch) == Len(batch) >= BatchSize

\* batchProcessor, the critical section: append to currentBatch and send the
\* batch when it has reached BatchSize
BD_ProcAppend ==
  /\ bdProc.pc = "append"
  /\ LET b == Append(bdCurrentBatch, bdProc.entry)
     IN IF BD_batchFull(b)
          THEN /\ bdSenders' = sendCurrentBatchLocked(b, bdSenders)
               /\ bdCurrentBatch' = <<>>
          ELSE /\ bdSenders' = bdSenders
               /\ bdCurrentBatch' = b
  /\ bdProc' = [pc |-> "select", entry |-> 0]
  /\ UNCHANGED <<bdQueue, bdDone, bdStats, bdDeliver, bdNextId, bdAccepted, bdHandled, bdFlush, bdClose>>
  /\ UNCHANGED <<adVars, alVars, pbVars, sdVars, dlVars, alOptions>>

\* a batchProcessor that ignores the tick
BD_tickSends_Never(batch) == FALSE
\* a batchProcessor that sends at every tick, whatever the batch holds
BD_tickSends_Always(batch) == TRUE

\* batchProcessor, case <-d.batchTicker.C: len(d.currentBatch) > 0
BD_tickSends(batch) == batch /= <<>>

\* batchProcessor, case <-d.batchTicker.C: send a non-empty batch (a tick that
\* finds the batch empty changes nothing)
BD_ProcTick ==
  /\ bdProc.pc = "select"
  /\ BD_tickSends(bdCurrentBatch)
  /\ bdSenders' = sendCurrentBatchLocked(bdCurrentBatch, bdSenders)
  /\ bdCurrentBatch' = <<>>
  /\ UNCHANGED <<bdQueue, bdDone, bdStats, bdProc, bdDeliver, bdNextId, bdAccepted, bdHandled, bdFlush, bdClose>>
  /\ UNCHANGED <<adVars, alVars, pbVars, sdVars, dlVars, alOptions>>

\* batchProcessor, case <-d.done: stop the ticker, final flush, return
BD_ProcExit ==
  /\ bdProc.pc = "select"
  /\ bdDone
  /\ IF bdCurrentBatch /= <<>>
       THEN /\ bdSenders' = sendCurrentBatchLocked(bdCurrentBatch, bdSenders)
            /\ bdCurrentBatch' = <<>>
       ELSE UNCHANGED <<bdSenders, bdCurrentBatch>>
  /\ bdProc' = [pc |-> "exited", entry |-> 0]
  /\ UNCHANGED <<bdQueue, bdDone, bdStats, bdDeliver, bdNextId, bdAccepted, bdHandled, bdFlush, bdClose>>
  /\ UNCHANGED <<adVars, alVars, pbVars, sdVars, dlVars, alOptions>>

\* the outcomes of the retry loop for one entry: Send succeeds after k failed
\* attempts (0 <= k <= MaxRetries), or every one of the MaxRetries + 1 attempts fails
SendOutcomes == [ok : {TRUE}, fails : 0..MaxRetries] \cup [ok : {FALSE}, fails : {MaxRetries + 1}]
\* the Send attempts an outcome stands for, and the retries among them
Attempts(o) == IF o.ok THEN o.fails + 1 ELSE o.fails
Retries(o) == Attempts(o) - 1

\* sendBatch, the retry loop for the entry at s.i (the batch is counted in
\* batches before the first entry): every attempt after the first counts in
\* retried; a success moves on to the next entry, exhaustion counts the entry
\* in failed and moves on.
BD_sendBatchSend(s, o) ==
  /\ s \in bdSenders
  /\ s.i \in 1..Len(s.batch)
  /\ LET e == s.batch[s.i]
         st == [bdStats EXCEPT !.batches = IF s.i = 1 THEN @ + 1 ELSE @,
                               !.retried = @ + Retries(o)]
     IN IF o.ok
          THEN /\ bdSenders' = (bdSenders \ {s}) \cup
                      {[s EXCEPT !.i = @ + 1, !.success = @ \cup {e}]}
               /\ bdHandled' = [bdHandled EXCEPT ![e] = "sent"]
               /\ bdStats' = st
          ELSE /\ bdSenders' = (bdSenders \ {s}) \cup {[s EXCEPT !.i = @ + 1]}
               /\ bdHandled' = [bdHandled EXCEPT ![e] = "failed"]
               /\ bdStats' = [st EXCEPT !.failed = @ + 1]
  /\ UNCHANGED <<bdQueue, bdDone, bdCurrentBatch, bdProc, bdDeliver, bdNextId, bdAccepted, bdFlush, bdClose>>
  /\ UNCHANGED <<adVars, alVars, pbVars, sdVars, dlVars, alOptions>>

\* a sendBatch that adds one more than its count of successes
BD_countDelivered_OneMore(stats, success) == [stats EXCEPT !.delivered = @ + success + 1]
\* a sendBatch that stores its count of successes instead of adding it
BD_countDelivered_Store(stats, success) == [stats EXCEPT !.delivered = success]

\* sendBatch: atomic.AddUint64(&d.delivered, uint64(success))
BD_countDelivered(stats, success) == [stats EXCEPT !.delivered = @ + success]

\* the Sender.Send calls made so far: one per entry a sendBatch has handled
\* and one per retry
BDSendCalls == Cardinality(BDFinished) + bdStats.retried

\* sendBatch, after the loop: atomic.AddUint64(&d.delivered, uint64(success))
BD_sendBatchFinish(s) ==
  /\ s \in bdSenders
  /\ s.i = Len(s.batch) + 1
  /\ bdStats' = BD_countDelivered(bdStats, Cardinality(s.success))
  /\ bdHandled' = [e \in EntryIds |-> IF e \in s.success THEN "delivered" ELSE bdHandled[e]]
  /\ bdSenders' = bdSenders \ {s}
  /\ UNCHANGED <<bdQueue, bdDone, bdCurrentBatch, bdProc, bdDeliver, bdNextId, bdAccepted, bdFlush, bdClose>>
  /\ UNCHANGED <<adVars, alVars, pbVars, sdVars, dlVars, alOptions>>

\* a Flush call (the user's or the one Close makes) is waiting for flushDone
BDFlushWaiting == bdFlush.cur /= "off"

\* Flush starts its polling goroutine
StartFlush(owner) ==
  [bdFlush EXCEPT !.cur = "load", !.owner = owner, !.snap = bdAccepted, !.res = "none",
                  !.pending = FALSE, !.unhandled = FALSE,
                  !.calls = IF owner = "user" THEN @ + 1 ELSE @]

\* Flush called by the user
BD_FlushBegin ==
  /\ bdClose.pc = "idle"
  /\ ~BDFlushWaiting
  /\ bdFlush.calls < MaxFlushCalls
  /\ bdFlush' = StartFlush("user")
  /\ UNCHANGED <<bdQueue, bdDone, bdStats, bdCurrentBatch, bdProc, bdSenders, bdDeliver, bdNextId, bdAccepted, bdHandled, bdClose>>
  /\ UNCHANGED <<adVars, alVars, pbVars, sdVars, dlVars, alOptions>>

\* Flush goroutine, atomic.LoadInt64(&d.buffered) == 0 (otherwise it sleeps
\* 10 ms and loads again)
BD_FlushLoad(g) ==
  /\ bdFlush[g] = "load"
  /\ bdStats.buffered = 0
  /\ bdFlush' = [bdFlush EXCEPT ![g] = "check"]
  /\ UNCHANGED <<bdQueue, bdDone, bdStats, bdCurrentBatch, bdProc, bdSenders, bdDeliver, bdNextId, bdAccepted, bdHandled, bdClose>>
  /\ UNCHANGED <<adVars, alVars, pbVars, sdVars, dlVars, alOptions>>

\* Flush goroutine, first critical section: batchEmpty := len(currentBatch) == 0;
\* when it is, flushDone is closed and the Flush waiting for it returns nil
BD_FlushCheck(g) ==
  /\ bdFlush[g] = "check"
  /\ IF bdCurrentBatch = <<>>
       THEN bdFlush' = IF g = "cur"
                         THEN [bdFlush EXCEPT !.cur = "off", !.res = "nil", !.snap = {},
                                              !.pending = bdFlush.snap \cap BDPending /= {},
                                              !.unhandled = bdFlush.snap \ BDFinished /= {}]
                         ELSE [bdFlush EXCEPT !.leak = "off"]
       ELSE bdFlush' = [bdFlush EXCEPT ![g] = "force"]
  /\ UNCHANGED <<bdQueue, bdDone, bdStats, bdCurrentBatch, bdProc, bdSenders, bdDeliver, bdNextId, bdAccepted, bdHandled, bdClose>>
  /\ UNCHANGED <<adVars, alVars, pbVars, sdVars, dlVars, alOptions>>

\* Flush goroutine, second critical section: force the current batch out,
\* then sleep 50 ms and start over
BD_FlushForce(g) ==
  /\ bdFlush[g] = "force"
  /\ IF bdCurrentBatch /= <<>>
       THEN /\ bdSenders' = sendCurrentBatchLocked(bdCurrentBatch, bdSenders)
            /\ bdCurrentBatch' = <<>>
       ELSE UNCHANGED <<bdSenders, bdCurrentBatch>>
  /\ bdFlush' = [bdFlush EXCEPT ![g] = "load"]
  /\ UNCHANGED <<bdQueue, bdDone, bdStats, bdProc, bdDeliver, bdNextId, bdAccepted, bdHandled, bdClose>>
  /\ UNCHANGED <<adVars, alVars, pbVars, sdVars, dlVars, alOptions>>

\* Flush, case <-time.After(ShutdownTimeout): return TimeoutError; the
\* goroutine keeps polling
BD_FlushTimeout ==
  /\ BDFlushWaiting
  /\ bdFlush.leak = "off"
  /\ bdFlush' = [bdFlush EXCEPT !.cur = "off", !.leak = bdFlush.cur, !.res = "Timeout",
                                !.snap = {}]
  /\ UNCHANGED <<bdQueue, bdDone, bdStats, bdCurrentBatch, bdProc, bdSenders, bdDeliver, bdNextId, bdAccepted, bdHandled, bdClose>>
  /\ UNCHANGED <<adVars, alVars, pbVars, sdVars, dlVars, alOptions>>

\* Close is called: flushErr := d.Flush()
BD_CloseBegin ==
  /\ bdClose.pc = "idle"
  /\ bdClose.calls < BDMaxCloseCalls
  /\ ~BDFlushWaiting
  /\ bdClose' = [bdClose EXCEPT !.pc = "flush", !.calls = @ + 1, !.res = "none",
                                !.snap = BDPending \cap bdAccepted]
  /\ bdFlush' = StartFlush("close")
  /\ UNCHANGED <<bdQueue, bdDone, bdStats, bdCurrentBatch, bdProc, bdSenders, bdDeliver, bdNextId, bdAccepted, bdHandled>>
  /\ UNCHANGED <<adVars, alVars, pbVars, sdVars, dlVars, alOptions>>

\* Close, after Flush has returned: close(d.done), which panics when done is
\* already closed
BD_CloseSignal ==
  /\ bdClose.pc = "flush"
  /\ ~BDFlushWaiting
  /\ IF bdDone
       THEN /\ bdClose' = [bdClose EXCEPT !.pc = "idle", !.res = "panic", !.snap = {}]
            /\ bdDone' = bdDone
       ELSE /\ bdClose' = [bdClose EXCEPT !.pc = "wait"]
            /\ bdDone' = TRUE
  /\ UNCHANGED <<bdQueue, bdStats, bdCurrentBatch, bdProc, bdSenders, bdDeliver, bdNextId, bdAccepted, bdHandled, bdFlush>>
  /\ UNCHANGED <<adVars, alVars, pbVars, sdVars, dlVars, alOptions>>

\* the error Close returns: the flush error if there is one, else the close error
BDCloseResult(flushErr, closeErr) == IF flushErr /= "nil" THEN flushErr ELSE closeErr

\* Close, case <-c: the batchProcessor has called wg.Done
BD_CloseReturn ==
  /\ bdClose.pc = "wait"
  /\ bdProc.pc = "exited"
  /\ bdClose' = [bdClose EXCEPT !.pc = "idle", !.returned = TRUE, !.snap = {},
                                !.res = BDCloseResult(bdFlush.res, "nil"),
                                !.unfinished = bdClose.snap \ BDFinished /= {},
                                !.sending = BDSending]
  /\ UNCHANGED <<bdQueue, bdDone, bdStats, bdCurrentBatch, bdProc, bdSenders, bdDeliver, bdNextId, bdAccepted, bdHandled, bdFlush>>
  /\ UNCHANGED <<adVars, alVars, pbVars, sdVars, dlVars, alOptions>>

\* Close, case <-time.After(ShutdownTimeout)
BD_CloseTimeout ==
  /\ bdClose.pc = "wait"
  /\ bdClose' = [bdClose EXCEPT !.pc = "idle", !.returned = TRUE, !.snap = {},
                                !.res = BDCloseResult(bdFlush.res, "Shutdown"),
                                !.unfinished = bdClose.snap \ BDFinished /= {},
                                !.sending = BDSending]
  /\ UNCHANGED <<bdQueue, bdDone, bdStats, bdCurrentBatch, bdProc, bdSenders, bdDeliver, bdNextId, bdAccepted, bdHandled, bdFlush>>
  /\ UNCHANGED <<adVars, alVars, pbVars, sdVars, dlVars, alOptions>>

(* ====================================================================== *)
(*                           logger.AsyncLogger                            *)
(* ====================================================================== *)
ALWorkerIds == 1..LoggerWorkers

\* asyncLogEntry: an ordinary entry of a log call, or the entry Flush builds,
\* whose keyvals hold "_flush_marker" and the completion channel
LogEntry(n) == [id |-> n, fm |-> FALSE]
FlushMarker(n) == [id |-> n, fm |-> TRUE]

\* isFlushMarker: the keyvals hold the key "_flush_marker" followed by a value
isFlushMarker(entry) == entry.fm

\* NewAsync and start: an empty buffer, open channels, the processLogs
\* workers, handleFlushMarkers and flushRoutine waiting in their selects
NewAsyncOptions(blockOnFull, formatters, workers) ==
  /\ alFormatter \in formatters
  /\ alBuffer = <<>>
  /\ alBufClosed = FALSE
  /\ alDone = FALSE
  /\ alClosed = FALSE
  /\ alBlockOnFull = blockOnFull
  /\ alWorker = [w \in 1..workers |-> [pc |-> "select", batch |-> <<>>]]
  /\ alHandler = [pc |-> "select", entry |-> LogEntry(0)]
  /\ alTickerG = "select"
  /\ alLog = [pc |-> "idle", res |-> "none", afterClose |-> FALSE,
              parked |-> FALSE, atShutdown |-> FALSE]
  /\ alNextId = 0
  /\ alAccepted = {}
  /\ alSent = {}
  /\ alLost = {}
  /\ alFlush = [pc |-> "idle", calls |-> 0, snap |-> {}, res |-> "none", unsent |-> FALSE]
  /\ alSignalled = {}
  /\ alClose = [pc |-> "idle", calls |-> 0, snap |-> {}, res |-> "none",
                returned |-> FALSE, unsent |-> FALSE,
                rejected |-> 0, doneCloses |-> 0, bufCloses |-> 0]
  /\ alReports = [sendFailures |-> 0, unaccepted |-> FALSE, handlerCalls |-> 0, errs |-> {},
                  reordered |-> FALSE]

\* NewAsync(sender, WithBlockOnFull(blockOnFull)): the formatter is the default
\* formatter.NewLokiFormatter()
NewAsync(blockOnFull) == NewAsyncOptions(blockOnFull, {"LokiFormatter"}, LoggerWorkers)

\* ordinary entries that have been passed to Sender.Send
ALSentIds == {e.id : e \in {x \in alSent : ~x.fm}}

\* log without its check of l.closed
AL_logRejects_NoCheck == FALSE

\* log, the check under the read lock: a closed logger rejects the call
AL_logRejects == alClosed

\* log is called: LoggerClosed when l.closed, otherwise the entry is built
AL_logCheck ==
  /\ alLog.pc = "idle"
  /\ alNextId < MaxEntries
  /\ alNextId' = alNextId + 1
  /\ IF AL_logRejects
       THEN alLog' = [pc |-> "idle", res |-> "LoggerClosed", afterClose |-> alClose.returned,
                      parked |-> FALSE, atShutdown |-> FALSE]
       ELSE alLog' = [pc |-> "send", res |-> "none", afterClose |-> alClose.returned,
                      parked |-> FALSE, atShutdown |-> FALSE]
  /\ UNCHANGED <<alBuffer, alBufClosed, alDone, alClosed, alBlockOnFull, alWorker, alHandler,
                 alTickerG, alAccepted, alSent, alLost, alFlush, alSignalled, alClose>>
  /\ UNCHANGED alReports
  /\ UNCHANGED <<adVars, bdVars, pbVars, sdVars, dlVars, alOptions>>

\* a log that never takes the blocking select
AL_logBlocks_Never == FALSE

\* log: if l.blockOnFull
AL_logBlocks == alBlockOnFull

\* the cases of log's select that are ready in the current state.  A send on a
\* closed channel panics; the blocking select also has the case <-l.done, the
\* other select the default case.
AL_logOutcomes ==
  (IF alBufClosed THEN {"panic"} ELSE {})
  \cup (IF ~alBufClosed /\ Len(alBuffer) < QueueSize THEN {"nil"} ELSE {})
  \cup (IF AL_logBlocks /\ alDone THEN {"Shutdown"} ELSE {})
  \cup (IF ~AL_logBlocks /\ ~alBufClosed /\ Len(alBuffer) >= QueueSize
          THEN {"BufferFull"} ELSE {})

\* log, the select on l.buffer is evaluated: one of the ready cases is taken;
\* with none ready (the blocking select, a full open buffer, done open) the
\* caller is suspended
AL_logSend ==
  /\ alLog.pc = "send"
  /\ IF AL_logOutcomes = {}
       THEN /\ alLog' = [alLog EXCEPT !.pc = "parked", !.parked = TRUE]
            /\ UNCHANGED <<alBuffer, alAccepted>>
       ELSE \E out \in AL_logOutcomes :
              /\ alLog' = [alLog EXCEPT !.pc = "idle", !.res = out]
              /\ IF out = "nil"
                   THEN /\ alBuffer' = Append(alBuffer, LogEntry(alNextId))
                        /\ alAccepted' = alAccepted \cup {alNextId}
                   ELSE UNCHANGED <<alBuffer, alAccepted>>
  /\ UNCHANGED <<alBufClosed, alDone, alClosed, alBlockOnFull, alWorker, alHandler, alTickerG,
                 alNextId, alSent, alLost, alFlush, alSignalled, alClose>>
  /\ UNCHANGED alReports
  /\ UNCHANGED <<adVars, bdVars, pbVars, sdVars, dlVars, alOptions>>

\* log, the suspended select, case l.buffer <- entry: a receiver has made room
\* and the entry is enqueued; return nil
AL_logWake ==
  /\ alLog.pc = "parked"
  /\ ~alBufClosed
  /\ Len(alBuffer) < QueueSize
  /\ alLog' = [alLog EXCEPT !.pc = "idle", !.res = "nil"]
  /\ alBuffer' = Append(alBuffer, LogEntry(alNextId))
  /\ alAccepted' = alAccepted \cup {alNextId}
  /\ UNCHANGED <<alBufClosed, alDone, alClosed, alBlockOnFull, alWorker, alHandler, alTickerG,
                 alNextId, alSent, alLost, alFlush, alSignalled, alClose>>
  /\ UNCHANGED alReports
  /\ UNCHANGED <<adVars, bdVars, pbVars, sdVars, dlVars, alOptions>>

\* a suspended select without the case <-l.done: close(l.done) leaves the
\* caller suspended
AL_logShutdown_Ignored(log) == [log EXCEPT !.atShutdown = TRUE]

\* log, the suspended select, case <-l.done: return ErrShutdown
AL_logShutdown(log) ==
  [log EXCEPT !.pc = "idle", !.res = "Shutdown", !.atShutdown = TRUE]

\* FormatBatch puts the entry into the job's stream: StringFormatter prints
\* every key and value; LokiFormatter encodes them as JSON and skips an entry
\* whose encoding fails, as that of a flush marker does, whose keyvals hold a
\* channel
formatsEntry(entry) == ~isFlushMarker(entry) \/ alFormatter = "StringFormatter"

\* processBatch: the entries of the batch are grouped by job, formatted and
\* handed to Sender.Send
processBatch(batch, sent) == sent \cup {e \in SeqToSet(batch) : formatsEntry(e)}

\* a worker that swallows the error of a failed Send
errorHandler_NotCalled(reports, err) == reports

\* l.errorHandler(fmt.Errorf("%w: ...", errors.ErrProcessingFailed, err))
errorHandler(reports, err) ==
  [reports EXCEPT !.handlerCalls = @ + 1, !.errs = @ \cup {err}]

\* processBatch appends the entries to their job's values in the order of the
\* batch, so the payload lists them in that order: the ordinary entries of the
\* batch are in the order in which their log calls were made
InLogOrder(batch) ==
  \A i, j \in 1..Len(batch) :
    (i < j /\ ~isFlushMarker(batch[i]) /\ ~isFlushMarker(batch[j])) =>
      batch[i].id < batch[j].id

\* processBatch, the Send of the combined entry (the entries of one logger
\* share its job, so the batch makes one payload; an empty batch makes none):
\* a failed Send is passed to the error handler wrapped in ErrProcessingFailed
sendCombined(batch, ok, reports) ==
  LET r == [reports EXCEPT !.reordered = @ \/ ~InLogOrder(batch)]
  IN IF batch = <<>> \/ ok
       THEN r
       ELSE errorHandler([r EXCEPT
                            !.sendFailures = @ + 1,
                            !.unaccepted = @ \/ \E e \in SeqToSet(batch) :
                                                    ~isFlushMarker(e) /\ e.id \notin alAccepted],
                         "ProcessingFailed")

\* processLogs, case entry, more := <-l.buffer with an entry: append it to the
\* batch and process the batch when it has reached batchSize
AL_WorkerReceive(w) ==
  /\ alWorker[w].pc = "select"
  /\ alBuffer /= <<>>
  /\ LET b == Append(alWorker[w].batch, Head(alBuffer))
     IN IF Len(b) >= BatchSize
          THEN /\ alSent' = processBatch(b, alSent)
               /\ \E ok \in BOOLEAN : alReports' = sendCombined(b, ok, alReports)
               /\ alWorker' = [alWorker EXCEPT ![w].batch = <<>>]
          ELSE /\ alSent' = alSent
               /\ alReports' = alReports
               /\ alWorker' = [alWorker EXCEPT ![w].batch = b]
  /\ alBuffer' = Tail(alBuffer)
  /\ UNCHANGED <<alBufClosed, alDone, alClosed, alBlockOnFull, alHandler, alTickerG, alLog,
                 alNextId, alAccepted, alLost, alFlush, alSignalled, alClose>>
  /\ UNCHANGED <<adVars, bdVars, pbVars, sdVars, dlVars, alOptions>>

\* processLogs, case <-l.buffer with !more: process the remaining batch, return
AL_WorkerBufferClosed(w) ==
  /\ alWorker[w].pc = "select"
  /\ alBuffer = <<>>
  /\ alBufClosed
  /\ alSent' = processBatch(alWorker[w].batch, alSent)
  /\ \E ok \in BOOLEAN : alReports' = sendCombined(alWorker[w].batch, ok, alReports)
  /\ alWorker' = [alWorker EXCEPT ![w] = [pc |-> "exited", batch |-> <<>>]]
  /\ UNCHANGED <<alBuffer, alBufClosed, alDone, alClosed, alBlockOnFull, alHandler, alTickerG,
                 alLog, alNextId, alAccepted, alLost, alFlush, alSignalled, alClose>>
  /\ UNCHANGED <<adVars, bdVars, pbVars, sdVars, dlVars, alOptions>>

\* processLogs, case <-l.flushTicker.C: the tick reaches this worker, which
\* processes a non-empty batch (the ticker is stopped by Close)
AL_WorkerTick(w) ==
  /\ alWorker[w].pc = "select"
  /\ ~alDone
  /\ alWorker[w].batch /= <<>>
  /\ alSent' = processBatch(alWorker[w].batch, alSent)
  /\ \E ok \in BOOLEAN : alReports' = sendCombined(alWorker[w].batch, ok, alReports)
  /\ alWorker' = [alWorker EXCEPT ![w].batch = <<>>]
  /\ UNCHANGED <<alBuffer, alBufClosed, alDone, alClosed, alBlockOnFull, alHandler, alTickerG,
                 alLog, alNextId, alAccepted, alLost, alFlush, alSignalled, alClose>>
  /\ UNCHANGED <<adVars, bdVars, pbVars, sdVars, dlVars, alOptions>>

\* processLogs, case <-l.done: process the remaining batch and return,
\* whatever the buffer still holds
AL_WorkerDone(w) ==
  /\ alWorker[w].pc = "select"
  /\ alDone
  /\ alSent' = processBatch(alWorker[w].batch, alSent)
  /\ \E ok \in BOOLEAN : alReports' = sendCombined(alWorker[w].batch, ok, alReports)
  /\ alWorker' = [alWorker EXCEPT ![w] = [pc |-> "exited", batch |-> <<>>]]
  /\ UNCHANGED <<alBuffer, alBufClosed, alDone, alClosed, alBlockOnFull, alHandler, alTickerG,
                 alLog, alNextId, alAccepted, alLost, alFlush, alSignalled, alClose>>
  /\ UNCHANGED <<adVars, bdVars, pbVars, sdVars, dlVars, alOptions>>

\* handleFlushMarkers, case entry, more := <-l.buffer with an entry: a marker's
\* completion channel is closed (processFlushMarker); any other entry goes on
\* to shouldRequeueEntry
AL_HandlerReceive ==
  /\ alHandler.pc = "select"
  /\ alBuffer /= <<>>
  /\ LET e == Head(alBuffer)
     IN IF isFlushMarker(e)
          THEN /\ alSignalled' = alSignalled \cup {e.id}
               /\ alHandler' = alHandler
          ELSE /\ alSignalled' = alSignalled
               /\ alHandler' = [pc |-> "check", entry |-> e]
  /\ alBuffer' = Tail(alBuffer)
  /\ UNCHANGED <<alBufClosed, alDone, alClosed, alBlockOnFull, alWorker, alTickerG, alLog,
                 alNextId, alAccepted, alSent, alLost, alFlush, alClose>>
  /\ UNCHANGED alReports
  /\ UNCHANGED <<adVars, bdVars, pbVars, sdVars, dlVars, alOptions>>

\* handleFlushMarkers returns: the buffer is closed and empty, or done is closed
AL_HandlerExit ==
  /\ alHandler.pc = "select"
  /\ (alBuffer = <<>> /\ alBufClosed) \/ alDone
  /\ alHandler' = [alHandler EXCEPT !.pc = "exited"]
  /\ UNCHANGED <<alBuffer, alBufClosed, alDone, alClosed, alBlockOnFull, alWorker, alTickerG,
                 alLog, alNextId, alAccepted, alSent, alLost, alFlush, alSignalled, alClose>>
  /\ UNCHANGED alReports
  /\ UNCHANGED <<adVars, bdVars, pbVars, sdVars, dlVars, alOptions>>

\* shouldRequeueEntry: false when the logger is closed or done is closed
shouldRequeueEntry == ~(alClosed \/ alDone)

\* handleFlushMarkers, after shouldRequeueEntry: the entry is dropped when the
\* logger is shutting down
AL_HandlerCheck ==
  /\ alHandler.pc = "check"
  /\ IF shouldRequeueEntry
       THEN /\ alHandler' = [alHandler EXCEPT !.pc = "requeue"]
            /\ alLost' = alLost
       ELSE /\ alHandler' = [pc |-> "select", entry |-> LogEntry(0)]
            /\ alLost' = alLost \cup {alHandler.entry.id}
  /\ UNCHANGED <<alBuffer, alBufClosed, alDone, alClosed, alBlockOnFull, alWorker, alTickerG,
                 alLog, alNextId, alAccepted, alSent, alFlush, alSignalled, alClose>>
  /\ UNCHANGED alReports
  /\ UNCHANGED <<adVars, bdVars, pbVars, sdVars, dlVars, alOptions>>

\* requeueEntry, under the write lock: unless closed, a non-blocking send puts
\* the entry at the back of the buffer; a full buffer drops it
AL_requeueEntry ==
  /\ alHandler.pc = "requeue"
  /\ IF ~alClosed /\ Len(alBuffer) < QueueSize
       THEN /\ alBuffer' = Append(alBuffer, alHandler.entry)
            /\ alLost' = alLost
       ELSE /\ alBuffer' = alBuffer
            /\ alLost' = alLost \cup {alHandler.entry.id}
  /\ alHandler' = [pc |-> "select", entry |-> LogEntry(0)]
  /\ UNCHANGED <<alBufClosed, alDone, alClosed, alBlockOnFull, alWorker, alTickerG, alLog,
                 alNextId, alAccepted, alSent, alFlush, alSignalled, alClose>>
  /\ UNCHANGED alReports
  /\ UNCHANGED <<adVars, bdVars, pbVars, sdVars, dlVars, alOptions>>

\* flushRoutine, case <-l.done: return (its case <-l.flushTicker.C does nothing)
AL_flushRoutineExit ==
  /\ alTickerG = "select"
  /\ alDone
  /\ alTickerG' = "exited"
  /\ UNCHANGED <<alBuffer, alBufClosed, alDone, alClosed, alBlockOnFull, alWorker, alHandler,
                 alLog, alNextId, alAccepted, alSent, alLost, alFlush, alSignalled, alClose>>
  /\ UNCHANGED alReports
  /\ UNCHANGED <<adVars, bdVars, pbVars, sdVars, dlVars, alOptions>>

\* Flush, the check under the read lock: a closed logger returns ErrLoggerClosed
AL_FlushRejects == alClosed

\* Flush is called
AL_FlushCheck ==
  /\ alFlush.pc = "idle"
  /\ alFlush.calls < MaxFlushCalls
  /\ IF AL_FlushRejects
       THEN alFlush' = [alFlush EXCEPT !.calls = @ + 1, !.res = "LoggerClosed"]
       ELSE alFlush' = [alFlush EXCEPT !.pc = "enqueue", !.calls = @ + 1, !.res = "none",
                                       !.snap = alAccepted]
  /\ UNCHANGED <<alBuffer, alBufClosed, alDone, alClosed, alBlockOnFull, alWorker, alHandler,
                 alTickerG, alLog, alNextId, alAccepted, alSent, alLost, alSignalled, alClose>>
  /\ UNCHANGED alReports
  /\ UNCHANGED <<adVars, bdVars, pbVars, sdVars, dlVars, alOptions>>

\* Flush, the first select: the marker is sent on l.buffer, which blocks while
\* the buffer is full and panics when the buffer is closed
AL_FlushEnqueue ==
  /\ alFlush.pc = "enqueue"
  /\ IF alBufClosed
       THEN /\ alFlush' = [alFlush EXCEPT !.pc = "idle", !.res = "panic", !.snap = {}]
            /\ alBuffer' = alBuffer
       ELSE /\ Len(alBuffer) < QueueSize
            /\ alBuffer' = Append(alBuffer, FlushMarker(alFlush.calls))
            /\ alFlush' = [alFlush EXCEPT !.pc = "wait"]
  /\ UNCHANGED <<alBufClosed, alDone, alClosed, alBlockOnFull, alWorker, alHandler, alTickerG,
                 alLog, alNextId, alAccepted, alSent, alLost, alSignalled, alClose>>
  /\ UNCHANGED alReports
  /\ UNCHANGED <<adVars, bdVars, pbVars, sdVars, dlVars, alOptions>>

\* Flush, the second select, case <-flushDone: return nil
AL_FlushReturn ==
  /\ alFlush.pc = "wait"
  /\ alFlush.calls \in alSignalled
  /\ alFlush' = [alFlush EXCEPT !.pc = "idle", !.res = "nil", !.snap = {},
                                !.unsent = alFlush.snap \ ALSentIds /= {}]
  /\ UNCHANGED <<alBuffer, alBufClosed, alDone, alClosed, alBlockOnFull, alWorker, alHandler,
                 alTickerG, alLog, alNextId, alAccepted, alSent, alLost, alSignalled, alClose>>
  /\ UNCHANGED alReports
  /\ UNCHANGED <<adVars, bdVars, pbVars, sdVars, dlVars, alOptions>>

\* Flush, case <-flushCtx.Done() of either select: return ErrTimeout
AL_FlushTimeout ==
  /\ alFlush.pc \in {"enqueue", "wait"}
  /\ alFlush' = [alFlush EXCEPT !.pc = "idle", !.res = "Timeout", !.snap = {}]
  /\ UNCHANGED <<alBuffer, alBufClosed, alDone, alClosed, alBlockOnFull, alWorker, alHandler,
                 alTickerG, alLog, alNextId, alAccepted, alSent, alLost, alSignalled, alClose>>
  /\ UNCHANGED alReports
  /\ UNCHANGED <<adVars, bdVars, pbVars, sdVars, dlVars, alOptions>>

\* Close without its check of l.closed
AL_CloseRejects_NoCheck == FALSE

\* Close, the check under the write lock: a closed logger rejects the call
AL_CloseRejects == alClosed

\* Close, the critical section, entered by any caller at any time:
\* ErrLoggerClosed when already closed (the call returns at once, whatever the
\* Close call that is shutting down is doing), otherwise l.closed = true and
\* this caller goes on to shut down
AL_CloseLock ==
  /\ alClose.calls < MaxCloseCalls
  /\ IF AL_CloseRejects
       THEN /\ alClose' = [alClose EXCEPT !.calls = @ + 1, !.res = "LoggerClosed",
                                          !.returned = TRUE, !.rejected = @ + 1]
            /\ alClosed' = alClosed
       ELSE /\ alClose.pc = "idle"
            /\ alClose' = [alClose EXCEPT !.pc = "flush", !.calls = @ + 1, !.res = "none",
                                          !.snap = alAccepted]
            /\ alClosed' = TRUE
  /\ UNCHANGED <<alBuffer, alBufClosed, alDone, alBlockOnFull, alWorker, alHandler, alTickerG,
                 alLog, alNextId, alAccepted, alSent, alLost, alFlush, alSignalled>>
  /\ UNCHANGED alReports
  /\ UNCHANGED <<adVars, bdVars, pbVars, sdVars, dlVars, alOptions>>

\* Close, l.Flush(): the logger is already marked closed, so Flush returns
\* ErrLoggerClosed at once, which Close ignores; no marker is enqueued
AL_CloseFlush ==
  /\ alClose.pc = "flush"
  /\ AL_FlushRejects
  /\ alClose' = [alClose EXCEPT !.pc = "signal"]
  /\ UNCHANGED <<alBuffer, alBufClosed, alDone, alClosed, alBlockOnFull, alWorker, alHandler,
                 alTickerG, alLog, alNextId, alAccepted, alSent, alLost, alFlush, alSignalled>>
  /\ UNCHANGED alReports
  /\ UNCHANGED <<adVars, bdVars, pbVars, sdVars, dlVars, alOptions>>

\* Close, l.flushTicker.Stop() and close(l.done): the close wakes a log
\* caller suspended in its select with the case <-l.done
AL_CloseDone ==
  /\ alClose.pc = "signal"
  /\ alDone' = TRUE
  /\ alClose' = [alClose EXCEPT !.pc = "closebuf", !.doneCloses = @ + 1]
  /\ alLog' = IF alLog.pc = "parked" THEN AL_logShutdown(alLog) ELSE alLog
  /\ UNCHANGED <<alBuffer, alBufClosed, alClosed, alBlockOnFull, alWorker, alHandler, alTickerG,
                 alNextId, alAccepted, alSent, alLost, alFlush, alSignalled>>
  /\ UNCHANGED alReports
  /\ UNCHANGED <<adVars, bdVars, pbVars, sdVars, dlVars, alOptions>>

\* Close, close(l.buffer): a sender still suspended on the channel panics
AL_CloseBuffer ==
  /\ alClose.pc = "closebuf"
  /\ alBufClosed' = TRUE
  /\ alClose' = [alClose EXCEPT !.pc = "wait", !.bufCloses = @ + 1]
  /\ alLog' = IF alLog.pc = "parked"
                THEN [alLog EXCEPT !.pc = "idle", !.res = "panic"]
                ELSE alLog
  /\ UNCHANGED <<alBuffer, alDone, alClosed, alBlockOnFull, alWorker, alHandler, alTickerG,
                 alNextId, alAccepted, alSent, alLost, alFlush, alSignalled>>
  /\ UNCHANGED alReports
  /\ UNCHANGED <<adVars, bdVars, pbVars, sdVars, dlVars, alOptions>>

\* Close, l.wg.Wait() has returned: every goroutine has exited; return nil
AL_CloseReturn ==
  /\ alClose.pc = "wait"
  /\ \A w \in ALWorkerIds : alWorker[w].pc = "exited"
  /\ alHandler.pc = "exited"
  /\ alTickerG = "exited"
  /\ alClose' = [alClose EXCEPT !.pc = "idle", !.res = "nil", !.returned = TRUE, !.snap = {},
                                !.unsent = alClose.snap \ ALSentIds /= {}]
  /\ UNCHANGED <<alBuffer, alBufClosed, alDone, alClosed, alBlockOnFull, alWorker, alHandler,
                 alTickerG, alLog, alNextId, alAccepted, alSent, alLost, alFlush, alSignalled>>
  /\ UNCHANGED alReports
  /\ UNCHANGED <<adVars, bdVars, pbVars, sdVars, dlVars, alOptions>>

(* ====================================================================== *)
(*           a logger derived by AsyncLogger.WithContext / WithJob         *)
(* ====================================================================== *)
\* the entry logged through the derived logger
DerivedEntryId == MaxEntries + 1

\* WithContext and WithJob have not been called
NoDerived ==
  dl = [state |-> "none", closed |-> FALSE,
        cpc |-> "idle", cres |-> "none", doneCloses |-> 0, bufCloses |-> 0,
        lpc |-> "idle", lres |-> "none", logged |-> FALSE, afterClose |-> FALSE]

\* WithContext / WithJob, under the read lock: a closed logger returns itself;
\* otherwise a new AsyncLogger is returned that shares buffer, done and the
\* ticker, has a mutex, a WaitGroup and a closed flag of its own, and starts
\* no goroutine
AL_WithContext ==
  /\ dl.state = "none"
  /\ dl' = IF alClosed
             THEN [dl EXCEPT !.state = "self"]
             ELSE [dl EXCEPT !.state = "derived", !.closed = alClosed]
  /\ UNCHANGED <<adVars, bdVars, alVars, pbVars, sdVars, alOptions>>

\* the Close call that shut the logger down has returned nil
ALCloseReturnedNil == alClose.pc = "idle" /\ alClose.bufCloses > 0

\* log on the derived logger, the check of its own closed flag
DL_logCheck ==
  /\ dl.state = "derived"
  /\ dl.lpc = "idle"
  /\ ~dl.logged
  /\ dl' = IF dl.closed
             THEN [dl EXCEPT !.logged = TRUE, !.lres = "LoggerClosed",
                             !.afterClose = ALCloseReturnedNil]
             ELSE [dl EXCEPT !.logged = TRUE, !.lpc = "send",
                             !.afterClose = ALCloseReturnedNil]
  /\ UNCHANGED <<adVars, bdVars, alVars, pbVars, sdVars, alOptions>>

\* log on the derived logger, the select on the shared buffer; a suspended
\* caller is one whose select has no ready case yet
DL_logSend ==
  /\ dl.state = "derived"
  /\ dl.lpc = "send"
  /\ \E out \in AL_logOutcomes :
       /\ dl' = [dl EXCEPT !.lpc = "idle", !.lres = out]
       /\ alBuffer' = IF out = "nil"
                        THEN Append(alBuffer, LogEntry(DerivedEntryId))
                        ELSE alBuffer
  /\ UNCHANGED <<alBufClosed, alDone, alClosed, alBlockOnFull, alWorker, alHandler, alTickerG,
                 alLog, alNextId, alAccepted, alSent, alLost, alFlush, alSignalled, alClose,
                 alReports>>
  /\ UNCHANGED <<adVars, bdVars, pbVars, sdVars, alOptions>>

\* Close on the derived logger, the critical section on its own mutex and
\* closed flag
DL_CloseLock ==
  /\ dl.state = "derived"
  /\ dl.cpc = "idle"
  /\ dl.cres = "none"
  /\ dl' = IF dl.closed
             THEN [dl EXCEPT !.cres = "LoggerClosed"]
             ELSE [dl EXCEPT !.closed = TRUE, !.cpc = "signal"]
  /\ UNCHANGED <<adVars, bdVars, alVars, pbVars, sdVars, alOptions>>

\* Close on the derived logger: its Flush returns ErrLoggerClosed, the shared
\* ticker is stopped, then close(l.done) on the shared channel, which panics
\* when the channel is already closed
DL_CloseDone ==
  /\ dl.cpc = "signal"
  /\ IF alDone
       THEN /\ dl' = [dl EXCEPT !.cpc = "idle", !.cres = "panic", !.doneCloses = @ + 1]
            /\ UNCHANGED <<alDone, alLog>>
       ELSE /\ dl' = [dl EXCEPT !.cpc = "closebuf", !.doneCloses = @ + 1]
            /\ alDone' = TRUE
            /\ alLog' = IF alLog.pc = "parked" THEN AL_logShutdown(alLog) ELSE alLog
  /\ UNCHANGED <<alBuffer, alBufClosed, alClosed, alBlockOnFull, alWorker, alHandler, alTickerG,
                 alNextId, alAccepted, alSent, alLost, alFlush, alSignalled, alClose,
                 alReports>>
  /\ UNCHANGED <<adVars, bdVars, pbVars, sdVars, alOptions>>

\* Close on the derived logger: close(l.buffer) on the shared channel, which
\* panics when the channel is already closed; its own WaitGroup is empty, so
\* l.wg.Wait() returns at once and Close returns nil
DL_CloseBuffer ==
  /\ dl.cpc = "closebuf"
  /\ IF alBufClosed
       THEN /\ dl' = [dl EXCEPT !.cpc = "idle", !.cres = "panic", !.bufCloses = @ + 1]
            /\ UNCHANGED alBufClosed
       ELSE /\ dl' = [dl EXCEPT !.cpc = "idle", !.cres = "nil", !.bufCloses = @ + 1]
            /\ alBufClosed' = TRUE
  /\ UNCHANGED <<alBuffer, alDone, alClosed, alBlockOnFull, alWorker, alHandler, alTickerG,
                 alLog, alNextId, alAccepted, alSent, alLost, alFlush, alSignalled, alClose,
                 alReports>>
  /\ UNCHANGED <<adVars, bdVars, pbVars, sdVars, alOptions>>

(* ====================================================================== *)
(*                         delivery.SyncDeliverer                          *)
(* ====================================================================== *)
\* what Sender.Send returns: nil or one of its errors
SenderResults == {"nil", "SendFailed", "Unavailable"}

\* NewSyncDeliverer: zero counters
NewSyncDeliverer ==
  sd = [delivered |-> 0, failed |-> 0, calls |-> 0, sends |-> 0, payload |-> 0,
        senderErr |-> "none", res |-> "none", flushes |-> 0, closes |-> 0, opRes |-> "none"]

\* Status(): Delivered and Failed are loaded, the other fields are left zero
SDStatus == [buffered |-> 0, delivered |-> sd.delivered, failed |-> sd.failed,
             dropped |-> 0, retried |-> 0]

\* a Deliver that wraps the Sender's error
SD_result_Wrapped(err) == IF err = "nil" THEN "nil" ELSE "ProcessingFailed"

\* Deliver: return err
SD_result(err) == err

\* Deliver: one d.sender.Send(job, formatted); an error counts in failed and is
\* returned, nil counts in delivered
SD_Deliver(err) ==
  /\ sd.calls < MaxEntries
  /\ sd' = [sd EXCEPT !.calls = @ + 1, !.sends = @ + 1, !.payload = sd.calls + 1,
                      !.senderErr = err, !.res = SD_result(err),
                      !.failed = IF err /= "nil" THEN @ + 1 ELSE @,
                      !.delivered = IF err = "nil" THEN @ + 1 ELSE @]
  /\ UNCHANGED <<adVars, bdVars, alVars, pbVars, dlVars, alOptions>>

\* a Flush that refuses once the deliverer has been closed
SD_FlushResult_AfterClose == IF sd.closes > 0 THEN "LoggerClosed" ELSE "nil"

\* Flush: return nil
SD_FlushResult == "nil"

\* Flush is a no-op
SD_Flush ==
  /\ sd.flushes < MaxCloseCalls
  /\ sd' = [sd EXCEPT !.flushes = @ + 1, !.opRes = SD_FlushResult]
  /\ UNCHANGED <<adVars, bdVars, alVars, pbVars, dlVars, alOptions>>

\* Close is a no-op
SD_Close ==
  /\ sd.closes < MaxCloseCalls
  /\ sd' = [sd EXCEPT !.closes = @ + 1, !.opRes = "nil"]
  /\ UNCHANGED <<adVars, bdVars, alVars, pbVars, dlVars, alOptions>>

(* ====================================================================== *)
(*                      AsyncLogger.processBatch                           *)
(* ====================================================================== *)
\* the estimated overhead per entry in bytes
EstimatedEntryOverhead == 100
\* l.maxRequestSize as set by WithMaxRequestSize
MaxRequestSize == 250
\* the lengths in bytes of the formatted log lines
RecordLens == {0, 100, 200}

\* the entries of one job after FormatBatch: one stream, one value per entry,
\* given by the length of its log line
JobEntries == UNION {[1..n -> RecordLens] : n \in 1..MaxRecords}
\* jobBatches in the order the range over the map visits them
JobBatches == UNION {[1..n -> JobEntries] : n \in 0..MaxJobs}

\* estimateBatchSize: the sum over the values of the line length plus the overhead
estimateBatchSize(jobEntry) ==
  LET S[n \in 0..Len(jobEntry)] ==
        IF n = 0 THEN 0 ELSE S[n - 1] + jobEntry[n] + EstimatedEntryOverhead
  IN S[Len(jobEntry)]

\* no call of processBatch is under way
PBIdle ==
  pb = [pc |-> "idle", jobs |-> <<>>, estimatedSize |-> 0, size |-> 0, streams |-> 0,
        sent |-> {}, all |-> <<>>, n |-> 0, failJob |-> 0, formatOk |-> TRUE,
        held |-> {}, payloads |-> <<>>, formats |-> 0, singles |-> 0, errs |-> <<>>]

\* processBatch is called with a batch that groups into jobBatches, with a
\* formatter whose FormatBatch fails for the job visited as number failJob (for
\* none when 0) and whose Format succeeds or fails
PBCall(jobBatches, failJob, formatOk) ==
  pb = [pc |-> "loop", jobs |-> jobBatches, estimatedSize |-> 0, size |-> 0, streams |-> 0,
        sent |-> {}, all |-> jobBatches, n |-> 0, failJob |-> failJob,
        formatOk |-> formatOk, held |-> {}, payloads |-> <<>>, formats |-> 0,
        singles |-> 0, errs |-> <<>>]

\* a fallback that sends the job's entries in one Send
processSingleEntries_OneSend(p, entries) ==
  [p EXCEPT !.formats = @ + Len(entries), !.singles = @ + 1]

\* processSingleEntries: every entry is formatted on its own; a formatted entry
\* is passed to Sender.Send, a failed Format is reported and the entry skipped
processSingleEntries(p, entries) ==
  [p EXCEPT !.formats = @ + Len(entries),
            !.singles = IF p.formatOk THEN @ + Len(entries) ELSE @,
            !.errs = IF p.formatOk THEN @
                     ELSE @ \o [i \in 1..Len(entries) |-> "ProcessingFailed"]]

\* an early send that keeps the streams already sent
resetStreams_Kept(held) == held

\* processBatch, after the early send: combinedEntry = LokiEntry{Streams: {}}
resetStreams(held) == {}

\* processBatch, one round of the loop over jobBatches: the job's entries are
\* formatted and their estimate is added to estimatedSize; when that exceeds
\* maxRequestSize and the combined entry has streams, the combined entry is
\* sent and replaced by an empty one and estimatedSize is set to 0; then the
\* job's stream is appended to the combined entry
PB_Job ==
  /\ pb.pc = "loop"
  /\ pb.jobs /= <<>>
  /\ LET g == estimateBatchSize(Head(pb.jobs))
         est == pb.estimatedSize + g
         job == pb.n + 1
     IN IF est > MaxRequestSize /\ pb.streams > 0
          THEN pb' = [pb EXCEPT !.jobs = Tail(@), !.n = job, !.sent = @ \cup {pb.size},
                                !.payloads = Append(@, pb.held),
                                !.held = resetStreams(@) \cup {job},
                                !.estimatedSize = 0, !.size = g, !.streams = 1]
          ELSE pb' = [pb EXCEPT !.jobs = Tail(@), !.n = job, !.estimatedSize = est,
                                !.held = @ \cup {job},
                                !.size = @ + g, !.streams = @ + 1]
  /\ pb.n + 1 /= pb.failJob
  /\ UNCHANGED <<adVars, bdVars, alVars, sdVars, dlVars, alOptions>>

\* processBatch, one round of the loop for a job whose FormatBatch fails: the
\* error is passed to the error handler wrapped in ErrProcessingFailed, the
\* entries go to processSingleEntries, and the loop continues
PB_JobFormatError ==
  /\ pb.pc = "loop"
  /\ pb.jobs /= <<>>
  /\ pb.n + 1 = pb.failJob
  /\ pb' = processSingleEntries(
             [pb EXCEPT !.jobs = Tail(@), !.n = @ + 1,
                        !.errs = Append(@, "ProcessingFailed")],
             Head(pb.jobs))
  /\ UNCHANGED <<adVars, bdVars, alVars, sdVars, dlVars, alOptions>>

\* processBatch, after the loop: a combined entry with streams is sent
PB_Final ==
  /\ pb.pc = "loop"
  /\ pb.jobs = <<>>
  /\ pb' = [pb EXCEPT !.pc = "done",
                      !.sent = IF pb.streams > 0 THEN @ \cup {pb.size} ELSE @,
                      !.payloads = IF pb.streams > 0 THEN Append(@, pb.held) ELSE @]
  /\ UNCHANGED <<adVars, bdVars, alVars, sdVars, dlVars, alOptions>>

(* ====================================================================== *)
(*                            specifications                               *)
(* ====================================================================== *)
InitAD == NewAsyncDeliverer /\ NewBatchDeliverer /\ NewAsync(FALSE) /\ PBIdle /\ NewSyncDeliverer /\ NoDerived
InitBD == NewAsyncDeliverer /\ NewBatchDeliverer /\ NewAsync(FALSE) /\ PBIdle /\ NewSyncDeliverer /\ NoDerived
\* NewAsync(sender, WithAsyncFormatter(f), WithBlockOnFull(b))
NewAsyncWithFormatter(blockOnFull) ==
  NewAsyncOptions(blockOnFull, {"LokiFormatter", "StringFormatter"}, LoggerWorkers)

InitALF ==
  /\ NewAsyncDeliverer /\ NewBatchDeliverer
  /\ \E b \in BOOLEAN : NewAsyncWithFormatter(b)
  /\ PBIdle /\ NewSyncDeliverer /\ NoDerived

InitAL == NewAsyncDeliverer /\ NewBatchDeliverer /\ (\E b \in BOOLEAN : NewAsync(b)) /\ PBIdle /\ NewSyncDeliverer /\ NoDerived
\* processBatch called with any batch
InitPB ==
  /\ NewAsyncDeliverer /\ NewBatchDeliverer /\ NewAsync(FALSE)
  /\ \E jobBatches \in JobBatches, formatOk \in BOOLEAN :
       \E failJob \in 0..Len(jobBatches) : PBCall(jobBatches, failJob, formatOk)
  /\ NewSyncDeliverer /\ NoDerived

\* the workers of the AsyncDeliverer and its Deliver caller
ADRun ==
  \/ AD_DeliverEnqueue
  \/ AD_DeliverCount
  \/ \E w \in ADWorkerIds : AD_WorkerReceive(w)
  \/ \E w \in ADWorkerIds : AD_WorkerCount(w)
  \/ \E w \in ADWorkerIds, ok \in BOOLEAN : AD_processEntry(w, ok)

NextAD ==
  \/ ADRun
  \/ \E w \in ADWorkerIds : AD_WorkerExit(w)
  \/ AD_FlushBegin
  \/ AD_FlushLoad
  \/ AD_FlushRecheck
  \/ AD_FlushTimeout
  \/ AD_CloseBegin
  \/ AD_CloseReturn
  \/ AD_CloseTimeout

\* the batchProcessor and the sendBatch goroutines of the BatchDeliverer and
\* its Deliver caller
BDCore ==
  \/ BD_DeliverEnqueue
  \/ BD_DeliverCount
  \/ BD_ProcReceive
  \/ BD_ProcCount
  \/ BD_ProcAppend
  \/ BD_ProcTick
  \/ \E s \in bdSenders, o \in SendOutcomes : BD_sendBatchSend(s, o)
  \/ \E s \in bdSenders : BD_sendBatchFinish(s)

\* the same with the goroutines of Flush
BDRun ==
  \/ BDCore
  \/ \E g \in FlushGoroutines : BD_FlushLoad(g)
  \/ \E g \in FlushGoroutines : BD_FlushCheck(g)
  \/ \E g \in FlushGoroutines : BD_FlushForce(g)
  \/ BD_FlushTimeout

\* a client that delivers and calls Flush
NextBDF ==
  \/ BDRun
  \/ BD_FlushBegin

\* a client that delivers and calls Close
NextBDC ==
  \/ BDRun
  \/ BD_ProcExit
  \/ BD_CloseBegin
  \/ BD_CloseSignal
  \/ BD_CloseReturn
  \/ BD_CloseTimeout

\* the goroutines of the AsyncLogger and its log caller
ALRun ==
  \/ AL_logCheck
  \/ AL_logSend
  \/ AL_logWake
  \/ \E w \in ALWorkerIds : AL_WorkerReceive(w)
  \/ \E w \in ALWorkerIds : AL_WorkerTick(w)
  \/ AL_HandlerReceive
  \/ AL_HandlerCheck
  \/ AL_requeueEntry

\* a client that logs and calls Flush
NextALF ==
  \/ ALRun
  \/ AL_FlushCheck
  \/ AL_FlushEnqueue
  \/ AL_FlushReturn
  \/ AL_FlushTimeout

\* a client that logs and calls Close
NextALC ==
  \/ ALRun
  \/ \E w \in ALWorkerIds : AL_WorkerBufferClosed(w)
  \/ \E w \in ALWorkerIds : AL_WorkerDone(w)
  \/ AL_HandlerExit
  \/ AL_flushRoutineExit
  \/ AL_CloseLock
  \/ AL_CloseFlush
  \/ AL_CloseDone
  \/ AL_CloseBuffer
  \/ AL_CloseReturn

\* a client that logs, calls Flush and calls Close, from separate goroutines
NextALFC ==
  \/ NextALF
  \/ NextALC

\* a client that derives a logger, logs through it and calls Close on both
\* loggers, with the goroutines of the AsyncLogger
NextALD ==
  \/ \E w \in ALWorkerIds : AL_WorkerReceive(w)
  \/ \E w \in ALWorkerIds : AL_WorkerTick(w)
  \/ AL_HandlerReceive
  \/ AL_HandlerCheck
  \/ AL_requeueEntry
  \/ \E w \in ALWorkerIds : AL_WorkerBufferClosed(w)
  \/ \E w \in ALWorkerIds : AL_WorkerDone(w)
  \/ AL_HandlerExit
  \/ AL_flushRoutineExit
  \/ AL_CloseLock
  \/ AL_CloseFlush
  \/ AL_CloseDone
  \/ AL_CloseBuffer
  \/ AL_CloseReturn
  \/ AL_WithContext
  \/ DL_logCheck
  \/ DL_logSend
  \/ DL_CloseLock
  \/ DL_CloseDone
  \/ DL_CloseBuffer

\* the client of a SyncDeliverer
NextSD ==
  \/ \E err \in SenderResults : SD_Deliver(err)
  \/ SD_Flush
  \/ SD_Close

\* no call has been made on the deliverer yet
ADUnused == adNextId = 0
BDUnused == bdNextId = 0
SDUnused == sd.calls = 0 /\ sd.flushes = 0 /\ sd.closes = 0

\* a client that constructs one of the deliverers and delivers through it
NextDeliver ==
  \/ BDUnused /\ SDUnused /\ ADRun
  \/ ADUnused /\ SDUnused /\ BDCore
  \/ ADUnused /\ BDUnused /\ NextSD

NextPB ==
  \/ PB_Job
  \/ PB_JobFormatError
  \/ PB_Final

SpecAD == InitAD /\ [][NextAD]_vars
SpecPB == InitPB /\ [][NextPB]_vars
SpecSD == InitAD /\ [][NextSD]_vars

\* the Go scheduler runs every goroutine that can take a step, the ticker
\* keeps firing and every Sender.Send call returns
BDFairness ==
  /\ WF_vars(BD_DeliverCount)
  /\ WF_vars(BD_ProcReceive)
  /\ WF_vars(BD_ProcCount)
  /\ WF_vars(BD_ProcAppend)
  /\ WF_vars(BD_ProcTick)
  /\ WF_vars(\E s \in bdSenders, o \in SendOutcomes : BD_sendBatchSend(s, o))
  /\ WF_vars(\E s \in bdSenders : BD_sendBatchFinish(s))

\* a BatchDeliverer whose client only delivers, scheduled fairly
SpecBDLive == InitBD /\ [][BDCore]_vars /\ BDFairness
SpecDeliver == InitAD /\ [][NextDeliver]_vars
SpecBDF == InitBD /\ [][NextBDF]_vars
SpecBDC == InitBD /\ [][NextBDC]_vars
SpecALF == InitALF /\ [][NextALF]_vars
SpecALC == InitAL /\ [][NextALC]_vars
SpecALFC == InitAL /\ [][NextALFC]_vars
SpecALD == InitAL /\ [][NextALD]_vars

\* a blocking AsyncLogger that is never closed
InitALB ==
  NewAsyncDeliverer /\ NewBatchDeliverer /\ NewAsync(TRUE) /\ PBIdle /\ NewSyncDeliverer /\ NoDerived

\* the Go scheduler runs the log caller and the goroutines; a receive on the
\* full buffer hands the slot to the suspended sender, and a worker that can
\* receive again and again does receive
ALFairness ==
  /\ WF_vars(AL_logSend)
  /\ SF_vars(AL_logWake)
  /\ SF_vars(\E w \in ALWorkerIds : AL_WorkerReceive(w))
  /\ WF_vars(AL_HandlerCheck)
  /\ WF_vars(AL_requeueEntry)

SpecALB == InitALB /\ [][ALRun]_vars /\ ALFairness

\* NewAsync(sender, WithWorkers(TickWorkers), WithBlockOnFull(b)): start runs
\* TickWorkers processLogs goroutines on the one buffer and the one flushTicker
InitALT ==
  /\ NewAsyncDeliverer /\ NewBatchDeliverer
  /\ \E b \in BOOLEAN : NewAsyncOptions(b, {"LokiFormatter"}, TickWorkers)
  /\ PBIdle /\ NewSyncDeliverer /\ NoDerived

\* a client that logs, with the goroutines of a logger of TickWorkers workers;
\* a tick of the shared flushTicker is received by one goroutine: by one
\* worker (AL_WorkerTick), or by a worker with an empty batch or flushRoutine,
\* which do nothing with it
NextALT ==
  \/ AL_logCheck
  \/ AL_logSend
  \/ AL_logWake
  \/ \E w \in 1..TickWorkers : AL_WorkerReceive(w)
  \/ \E w \in 1..TickWorkers : AL_WorkerTick(w)
  \/ AL_HandlerReceive
  \/ AL_HandlerCheck
  \/ AL_requeueEntry

\* the ticker keeps firing and every worker waiting in its select with a
\* non-empty batch receives a tick in the end
ALTFairness == \A w \in 1..TickWorkers : WF_vars(AL_WorkerTick(w))

SpecALT == InitALT /\ [][NextALT]_vars /\ ALTFairness

(* ====================================================================== *)
(*                               claims                                    *)
(* ====================================================================== *)

\* C1: whenever AsyncLogger.Flush returns nil, every entry whose log call
\* returned nil before the Flush began has been passed to Sender.Send.
C1_FlushNilAllSent == alFlush.res = "nil" => ~alFlush.unsent

\* C2: whenever AsyncDeliverer.Flush returns nil, buffered is 0 and every entry
\* accepted before the Flush began has been counted in delivered or failed.
C2_FlushNilAllCounted ==
  adFlush.res = "nil" => adFlush.buffered = 0 /\ ~adFlush.uncounted

\* C3: whenever BatchDeliverer.Flush returns nil, no entry accepted before the
\* Flush began is still in the queue, in the processor's hand or in
\* currentBatch, and a sendBatch has finished with every one of them.
C3_FlushNilAllHandled ==
  (bdFlush.owner = "user" /\ bdFlush.res = "nil") => ~bdFlush.pending /\ ~bdFlush.unhandled

\* C4: when AsyncLogger.Close returns nil, every entry whose log call returned
\* nil before Close was called has been passed to Sender.Send.
C4_CloseNilAllSent == alClose.res = "nil" => ~alClose.unsent

\* C5: BatchDeliverer.Close returns nil only after every accepted entry that
\* was pending when Close was called has been sent or retried to exhaustion.
C5_CloseNilNothingPending == bdClose.res = "nil" => ~bdClose.unfinished

\* C6: every entry accepted by AsyncDeliverer.Deliver is counted exactly once,
\* in delivered or in failed: once every worker has returned (nothing can be
\* counted any more), no accepted entry is left uncounted.
C6_AcceptedReachTerminal ==
  (\A w \in ADWorkerIds : adWorker[w].pc = "exited") =>
     \A e \in adAccepted : adCounted[e].delivered + adCounted[e].failed = 1

C8_DeliverAfterCloseRejected ==
  adDeliver.afterClose => adDeliver.pc = "idle" /\ adDeliver.res \in {"LoggerClosed", "Shutdown"}

\* C9: once Close has returned nil, no Sender.Send call starts and none is in
\* progress (AsyncDeliverer and BatchDeliverer).
C9_NoSendAfterClose ==
  /\ adClose.res = "nil" => ~ADSending
  /\ bdClose.res = "nil" => ~BDSending

\* C10: a log call never attempts a send on the already-closed buffer channel
\* (which panics), however it interleaves with Close.
C10_NoSendOnClosedBuffer == alLog.res /= "panic"

\* C11: of any number of sequential or concurrent Close calls on one
\* AsyncLogger exactly one passes the check of l.closed and shuts down, closing
\* done and buffer once each; every other call returns ErrLoggerClosed without
\* closing a channel.
C11_OneCloseShutsDown ==
  /\ alClose.calls - alClose.rejected = (IF alClosed THEN 1 ELSE 0)
  /\ alClose.doneCloses = (IF alDone THEN 1 ELSE 0)
  /\ alClose.bufCloses = (IF alBufClosed THEN 1 ELSE 0)
  /\ alClose.res = "nil" => alDone /\ alBufClosed
\* a Close call has been rejected while the call that shuts down is still
\* waiting for the goroutines, both channels closed
C11_Witness ==
  /\ alClose.pc = "wait"
  /\ alClose.rejected >= 1
  /\ alClose.doneCloses = 1
  /\ alClose.bufCloses = 1

\* C12: a second Close call on an AsyncDeliverer returns LoggerClosed and does
\* not close the done channel a second time.
C12_SecondCloseRejected ==
  (adClose.calls >= 2 /\ adClose.pc = "idle") => adClose.res = "LoggerClosed"

\* C13: the buffered counter reported by Status never exceeds QueueSize
\* (AsyncDeliverer and BatchDeliverer).
C13_BufferedAtMostQueueSize ==
  /\ ADStatus.buffered <= QueueSize
  /\ BDStatus.buffered <= QueueSize

\* C14: the buffered counter reported by Status is never negative
\* (AsyncDeliverer and BatchDeliverer).
C14_BufferedNonNegative ==
  /\ ADStatus.buffered >= 0
  /\ BDStatus.buffered >= 0

\* the sum of f over the entries
SumOverEntries(f) ==
  LET S[n \in 0..MaxEntries] == IF n = 0 THEN 0 ELSE S[n - 1] + f[n]
  IN S[MaxEntries]

\* the entries whose Deliver call took the default branch: the call has been
\* made, the entry was not accepted and is not about to be
ADDroppedIds ==
  {e \in 1..adNextId : e \notin adAccepted /\ ~(adDeliver.pc = "inc" /\ e = adNextId)}
BDDroppedIds ==
  {e \in 1..bdNextId : e \notin bdAccepted /\ ~(bdDeliver.pc = "inc" /\ e = bdNextId)}

\* C15: a Deliver call that finds the queue full returns BufferFull, counts
\* exactly one drop, leaves buffered and the queue alone, and its entry never
\* reaches a worker or the Sender; a Deliver call that returns nil leaves
\* dropped unchanged (AsyncDeliverer and BatchDeliverer).
C15_DropAccounting ==
  /\ [](/\ ADStatus.dropped = Cardinality(ADDroppedIds)
        /\ adDeliver.res = "BufferFull" => adNextId \in ADDroppedIds
        /\ \A e \in ADDroppedIds :
              /\ e \notin SeqToSet(adQueue)
              /\ \A w \in ADWorkerIds : adWorker[w].entry /= e
              /\ adCounted[e].sends = 0
        /\ BDStatus.dropped = Cardinality(BDDroppedIds)
        /\ bdDeliver.res = "BufferFull" => bdNextId \in BDDroppedIds
        /\ \A e \in BDDroppedIds :
              /\ e \notin BDPending
              /\ \A s \in bdSenders : e \notin SeqToSet(s.batch)
              /\ bdHandled[e] = "no")
  /\ [][adNextId' /= adNextId =>
         IF Len(adQueue) >= QueueSize
           THEN /\ adDeliver'.pc = "idle" /\ adDeliver'.res = "BufferFull"
                /\ adStats'.dropped = adStats.dropped + 1
                /\ adStats'.buffered = adStats.buffered
                /\ adQueue' = adQueue
           ELSE /\ adDeliver'.res /= "BufferFull"
                /\ adStats'.dropped = adStats.dropped]_vars
  /\ [][(adDeliver.pc = "inc" /\ adDeliver'.res = "nil") =>
         adStats'.dropped = adStats.dropped]_vars
  /\ [][bdNextId' /= bdNextId =>
         IF Len(bdQueue) >= QueueSize
           THEN /\ bdDeliver'.pc = "idle" /\ bdDeliver'.res = "BufferFull"
                /\ bdStats'.dropped = bdStats.dropped + 1
                /\ bdStats'.buffered = bdStats.buffered
                /\ bdQueue' = bdQueue
           ELSE /\ bdDeliver'.res /= "BufferFull"
                /\ bdStats'.dropped = bdStats.dropped]_vars
  /\ [][(bdDeliver.pc = "inc" /\ bdDeliver'.res = "nil") =>
         bdStats'.dropped = bdStats.dropped]_vars
\* a Deliver call has found the queue full and has been rejected
C15_Witness ==
  /\ adDeliver.res = "BufferFull"
  /\ Len(adQueue) = QueueSize
  /\ ADStatus.dropped = 1
  /\ adAccepted /= {}

\* C16: with QueueSize = 2 and one worker, three consecutive Deliver calls
\* return nil, nil and BufferFull and leave dropped = 1, however the worker's
\* dequeue interleaves with them.
C16_ThirdDeliverDropped ==
  (QueueSize = 2 /\ Workers = 1 /\ adNextId = 3 /\ adDeliver.pc = "idle") =>
     /\ adAccepted = {1, 2}
     /\ adDeliver.res = "BufferFull"
     /\ ADStatus.dropped = 1

\* C17: an entry every Send of which fails gets exactly MaxRetries + 1 Send
\* attempts, is then counted once in failed and never in delivered, and adds
\* exactly MaxRetries to retried (AsyncDeliverer.processEntry, and the
\* per-entry loop of BatchDeliverer.sendBatch).
C17_PermanentFailure ==
  /\ [](/\ \A e \in EntryIds :
              /\ adCounted[e].sends <= MaxRetries + 1
              /\ adCounted[e].failed <= 1
              /\ adCounted[e].failed = 1 =>
                    /\ adCounted[e].sends = MaxRetries + 1
                    /\ adCounted[e].retries = MaxRetries
                    /\ adCounted[e].delivered = 0
              /\ (/\ adCounted[e].sends = MaxRetries + 1
                  /\ adCounted[e].delivered = 0) => adCounted[e].failed = 1
        /\ ADStatus.failed = SumOverEntries([e \in EntryIds |-> adCounted[e].failed])
        /\ ADStatus.retried = SumOverEntries([e \in EntryIds |-> adCounted[e].retries])
        /\ BDStatus.failed = Cardinality({e \in EntryIds : bdHandled[e] = "failed"}))
  /\ [][\A e \in EntryIds :
          /\ (bdHandled[e] /= "failed" /\ bdHandled'[e] = "failed") =>
                /\ bdHandled[e] = "no"
                /\ bdStats'.failed = bdStats.failed + 1
                /\ bdStats'.retried = bdStats.retried + MaxRetries
                /\ bdStats'.delivered = bdStats.delivered
          /\ bdHandled[e] = "failed" => bdHandled'[e] = "failed"]_vars
\* an entry has been retried to exhaustion and counted in failed
C17_Witness ==
  \E e \in EntryIds :
     /\ adCounted[e].failed = 1
     /\ adCounted[e].sends = MaxRetries + 1
     /\ ADStatus.retried >= MaxRetries
     /\ MaxRetries >= 1

\* C18: an entry whose Send fails k times (0 <= k <= MaxRetries) and then
\* succeeds gets exactly k + 1 Send attempts, adds k to retried and 1 to
\* delivered and nothing to failed: it reaches exactly one terminal state.
C18_RetryThenSuccess ==
  /\ \A e \in EntryIds :
        /\ adCounted[e].delivered + adCounted[e].failed <= 1
        /\ adCounted[e].delivered = 1 =>
              /\ adCounted[e].failed = 0
              /\ adCounted[e].retries \in 0..MaxRetries
              /\ adCounted[e].sends = adCounted[e].retries + 1
  /\ ADStatus.delivered = SumOverEntries([e \in EntryIds |-> adCounted[e].delivered])
  /\ ADStatus.retried = SumOverEntries([e \in EntryIds |-> adCounted[e].retries])
\* an entry has been delivered by the last attempt allowed, after MaxRetries
\* failed attempts
C18_Witness ==
  \E e \in EntryIds :
     /\ adCounted[e].delivered = 1
     /\ adCounted[e].retries = MaxRetries
     /\ MaxRetries >= 1

C20_PayloadSizeBound ==
  \A size \in pb.sent : size <= MaxRequestSize + EstimatedEntryOverhead

\* C21: the BatchDeliverer hands a batch of fewer than BatchSize entries to
\* sendBatch only in a tick, a Flush or the shutdown of Close; a batch is never
\* empty, and nothing is sent before the first batch is cut.
C21_NoSendBeforeBatchFull ==
  /\ [](/\ \A s \in bdSenders : s.batch /= <<>>
        /\ (bdSenders = {} /\ bdStats.batches = 0) => BDSendCalls = 0)
  /\ [][\A s \in bdSenders' \ bdSenders :
          (s.i = 1 /\ Len(s.batch) < BatchSize) =>
             \/ bdProc'.pc = "exited"
             \/ bdFlush' /= bdFlush
             \/ /\ bdProc.pc = "select" /\ bdProc' = bdProc
                /\ bdQueue' = bdQueue /\ bdStats' = bdStats]_vars
\* BatchSize - 1 entries have been accumulated and nothing has been sent
C21_Witness ==
  /\ Len(bdCurrentBatch) = BatchSize - 1
  /\ bdCurrentBatch /= <<>>
  /\ bdSenders = {}
  /\ BDSendCalls = 0

C23_TickSendsPartialBatch ==
  \A e \in EntryIds : (e \in bdAccepted) ~> (bdHandled[e] /= "no")
\* a batch of fewer than BatchSize entries, cut by a tick, is being sent
C23_Witness ==
  \E s \in bdSenders :
     /\ Len(s.batch) < BatchSize
     /\ s.i > 1
     /\ SeqToSet(s.batch) \subseteq bdAccepted

\* C24: SyncDeliverer.Deliver calls Sender.Send exactly once, with the payload
\* it was given, counts the call in delivered when Send returned nil and in
\* failed otherwise, and returns the Sender's error unchanged; after n Deliver
\* calls delivered + failed = n and buffered, dropped and retried are 0.
C24_SyncDeliverOnce ==
  /\ [](/\ SDStatus.delivered + SDStatus.failed = sd.calls
        /\ sd.sends = sd.calls
        /\ sd.payload = sd.calls
        /\ sd.res = sd.senderErr
        /\ SDStatus.buffered = 0 /\ SDStatus.dropped = 0 /\ SDStatus.retried = 0)
  /\ [][sd'.calls /= sd.calls =>
         /\ sd'.calls = sd.calls + 1
         /\ sd'.sends = sd.sends + 1
         /\ IF sd'.senderErr = "nil"
              THEN /\ sd'.res = "nil"
                   /\ sd'.delivered = sd.delivered + 1 /\ sd'.failed = sd.failed
              ELSE /\ sd'.res = sd'.senderErr
                   /\ sd'.failed = sd.failed + 1 /\ sd'.delivered = sd.delivered]_vars
\* Deliver calls have succeeded and failed, the last one returning the
\* Sender's error
C24_Witness ==
  /\ sd.delivered >= 1
  /\ sd.failed >= 1
  /\ sd.res = "Unavailable"

\* C25: SyncDeliverer.Flush and Close return nil, call the Sender never and
\* leave delivered and failed unchanged, however often and in whatever order
\* they are called.
C25_SyncFlushCloseNoOp ==
  /\ [](sd.opRes \in {"none", "nil"})
  /\ [][(sd'.flushes /= sd.flushes \/ sd'.closes /= sd.closes) =>
         /\ sd'.opRes = "nil"
         /\ sd'.sends = sd.sends
         /\ sd'.delivered = sd.delivered
         /\ sd'.failed = sd.failed
         /\ sd'.res = sd.res]_vars
\* Flush and Close have both been called, more than once, between Deliver calls
C25_Witness ==
  /\ sd.closes >= 2
  /\ sd.flushes >= 2
  /\ sd.opRes = "nil"
  /\ sd.delivered >= 1
  /\ sd.failed >= 1

\* C30: in the SyncDeliverer, the AsyncDeliverer and the BatchDeliverer no step
\* decreases delivered, failed, dropped or retried; only buffered is ever
\* decremented.
C30_CountersNeverDecrease ==
  [][/\ \A f \in {"delivered", "failed", "dropped", "retried"} :
          /\ adStats'[f] >= adStats[f]
          /\ bdStats'[f] >= bdStats[f]
     /\ sd'.delivered >= sd.delivered
     /\ sd'.failed >= sd.failed]_vars
\* the BatchDeliverer has counted the entries of a second batch after the
\* first, and buffered has gone back to 0
C30_Witness ==
  /\ bdStats.batches >= 2
  /\ bdStats.delivered >= 2
  /\ bdStats.buffered = 0
  /\ bdSenders = {}

\* C26: with blockOnFull a log call that is suspended on the full buffer when
\* Close closes done returns Shutdown and its entry is not enqueued; a
\* suspended call never sends on the closed buffer.
C26_SuspendedLogShutsDown ==
  /\ [](/\ alLog.atShutdown =>
             /\ alLog.pc = "idle"
             /\ alLog.res = "Shutdown"
             /\ alNextId \notin alAccepted
        /\ alLog.pc = "parked" => (alBlockOnFull /\ ~alDone /\ ~alBufClosed)
        /\ (alLog.parked /\ alLog.pc = "idle") => alLog.res \in {"nil", "Shutdown"})
  /\ [][(alLog.pc = "parked" /\ ~alDone /\ alDone') =>
         /\ alLog'.pc = "idle"
         /\ alLog'.res = "Shutdown"
         /\ alBuffer' = alBuffer
         /\ alAccepted' = alAccepted]_vars
\* a suspended call was woken by close(done), and Close has gone on to close
\* the buffer
C26_Witness ==
  /\ alLog.atShutdown
  /\ alLog.res = "Shutdown"
  /\ alBufClosed
  /\ Len(alBuffer) = QueueSize

\* C27: a blocking AsyncLogger that is never closed returns nil from every
\* log call, eventually, and BufferFull from none.
C27_BlockingLogReturnsNil ==
  /\ [](alLog.res \in {"none", "nil"})
  /\ (alLog.pc \in {"send", "parked"}) ~> (alLog.pc = "idle" /\ alLog.res = "nil")
\* a call that found the buffer full and was suspended has returned nil
C27_Witness ==
  /\ alBlockOnFull
  /\ ~alClosed
  /\ alLog.parked
  /\ alLog.pc = "idle"
  /\ alLog.res = "nil"
  /\ alNextId \in alAccepted

\* C28: when entries E1 and E2 of one caller are in the same worker batch and
\* E1 was logged first, E1 precedes E2 in the payload passed to Sender.Send.
C28_BatchKeepsLogOrder == ~alReports.reordered

\* C29: in a logger that has not been closed no goroutine that dequeues an
\* accepted entry discards it.
C29_NoLossAfterAcceptance == ~alClosed => alLost = {}

\* C31: every Flush call returns, with nil, Timeout or LoggerClosed, and every
\* Close call returns: no Flush or Close call ends in any other way.
C31_FlushAndCloseReturn ==
  /\ alFlush.res \in {"none", "nil", "Timeout", "LoggerClosed"}
  /\ alClose.res \in {"none", "nil", "LoggerClosed"}

\* the Send calls of combined entries that carry the stream of job j
PBSendsOf(j) == {i \in 1..Len(pb.payloads) : j \in pb.payloads[i]}

ALBatchHolders(e) == {w \in DOMAIN alWorker : LogEntry(e) \in SeqToSet(alWorker[w].batch)}

\* an entry a worker holds in its batch is passed to Sender.Send in the end,
\* with no Flush and no Close call and a batch that may stay below batchSize
C33_DequeuedEventuallySent ==
  \A e \in 1..MaxEntries : (ALBatchHolders(e) /= {}) ~> (LogEntry(e) \in alSent)

\* a step in which a worker acts on a timer fire leaves no worker with a
\* non-empty batch
C33_TickFlushesEveryBatch ==
  [][(\E w \in DOMAIN alWorker : AL_WorkerTick(w))
        => \A v \in DOMAIN alWorker : alWorker'[v].batch = <<>>]_vars

\* C33: with two or more workers an entry a worker has dequeued into its batch
\* is passed to Sender.Send in the end, without the batch reaching batchSize
\* and without Flush or Close, when the ticker keeps firing and the goroutines
\* are scheduled fairly: each timer fire flushes every worker's non-empty batch.
C33_TimerFlushesAllWorkers ==
  /\ C33_DequeuedEventuallySent
  /\ C33_TickFlushesEveryBatch

\* C37: at the end of every round of processBatch's loop estimatedSize is the
\* estimated size of the streams the combined entry holds, also right after
\* an early send.
C37_EstimatedSizeMatchesPayload == pb.estimatedSize = pb.size

\* C38: with a formatter that succeeds, every entry of the batch given to
\* processBatch is in exactly one Send call: a job already visited is either
\* held in the combined entry or in exactly one combined entry that was sent,
\* and when processBatch returns every job is in exactly one sent entry.
C38_EachEntrySentOnce ==
  pb.failJob = 0 =>
     /\ \A j \in 1..pb.n :
          Cardinality(PBSendsOf(j)) + (IF j \in pb.held /\ pb.pc = "loop" THEN 1 ELSE 0) = 1
     /\ \A i \in 1..Len(pb.payloads) : pb.payloads[i] /= {}
     /\ pb.held \subseteq 1..pb.n
     /\ pb.singles = 0
     /\ pb.pc = "done" =>
          /\ pb.n = Len(pb.all)
          /\ \A j \in 1..Len(pb.all) : Cardinality(PBSendsOf(j)) = 1
\* processBatch has returned after splitting the batch over two Send calls
C38_Witness ==
  /\ pb.pc = "done"
  /\ pb.failJob = 0
  /\ Len(pb.all) = 2
  /\ pb.payloads = <<{1}, {2}>>

\* C34: Close calls on a logger and on loggers derived from it, in any order
\* or concurrently, close the shared channels done and buffer at most once
\* each.
C34_SharedChannelsClosedOnce ==
  /\ alClose.doneCloses + dl.doneCloses <= 1
  /\ alClose.bufCloses + dl.bufCloses <= 1

\* C35: after Close has returned on a logger, a log call on a logger derived
\* from it before the Close returns a closed-logger error and never reaches
\* the send on the shared buffer.
C35_DerivedLogAfterCloseRejected ==
  (dl.state = "derived" /\ dl.afterClose) =>
     /\ dl.lpc = "idle"
     /\ dl.lres = "LoggerClosed"
     /\ LogEntry(DerivedEntryId) \notin SeqToSet(alBuffer)

\* C36: the flush marker that Flush puts on the buffer is in no payload passed
\* to Sender.Send, whichever goroutine dequeues it.
C36_MarkerNeverSent == \A e \in alSent : ~isFlushMarker(e)

\* C39: every batch handed to sendBatch holds between 1 and BatchSize entries,
\* and outside the critical sections currentBatch holds fewer than BatchSize
\* entries, whatever Flush calls run alongside the batch processor.
C39_BatchSizeBounds ==
  /\ \A s \in bdSenders : Len(s.batch) \in 1..BatchSize
  /\ Len(bdCurrentBatch) < BatchSize
\* a full batch cut by the processor and a partial batch are with sendBatch
\* goroutines while a Flush has been called
C39_Witness ==
  /\ bdFlush.calls > 0
  /\ \E s1, s2 \in bdSenders : Len(s1.batch) = BatchSize /\ Len(s2.batch) < BatchSize

\* entries Deliver has put on the queue (the call returns nil)
BDEnqueued == bdAccepted \cup (IF bdDeliver.pc = "inc" THEN {bdNextId} ELSE {})
\* every entry is counted at most once: the counters are the numbers of
\* entries counted in them
BDCountedOnce ==
  /\ bdStats.delivered = Cardinality({e \in EntryIds : bdHandled[e] = "delivered"})
  /\ bdStats.failed = Cardinality({e \in EntryIds : bdHandled[e] = "failed"})

\* C40 as stated: delivered + failed is at most the number of Deliver calls
\* that returned nil, each accepted entry is counted at most once, and with
\* the queue and currentBatch empty and no sendBatch running delivered + failed
\* is the number of accepted entries.
C40_CountedUpToAccepted ==
  /\ bdStats.delivered + bdStats.failed <= Cardinality(bdAccepted)
  /\ BDCountedOnce
  /\ (bdQueue = <<>> /\ bdCurrentBatch = <<>> /\ bdSenders = {}) =>
       bdStats.delivered + bdStats.failed = Cardinality(bdAccepted)

\* C40, amended: delivered + failed is at most the number of entries Deliver
\* has put on the queue, each counted at most once; with the queue and
\* currentBatch empty, no entry in the batch processor's hand and no sendBatch
\* running, delivered + failed is the number of entries put on the queue.
C40_CountedUpToEnqueued ==
  /\ bdStats.delivered + bdStats.failed <= Cardinality(BDEnqueued)
  /\ BDCountedIds \subseteq BDEnqueued
  /\ BDCountedOnce
  /\ (bdQueue = <<>> /\ bdCurrentBatch = <<>> /\ bdSenders = {}
        /\ bdProc.pc \notin {"dec", "append"}) =>
       bdStats.delivered + bdStats.failed = Cardinality(BDEnqueued)
\* everything is quiet after entries were delivered and an entry has failed
C40_Witness ==
  /\ bdQueue = <<>> /\ bdCurrentBatch = <<>> /\ bdSenders = {}
  /\ bdProc.pc = "select"
  /\ bdStats.delivered >= 1
  /\ bdStats.failed >= 1
  /\ bdStats.delivered + bdStats.failed = Cardinality(bdAccepted)
  /\ Cardinality(bdAccepted) = MaxEntries

====
